---- MODULE Spec2Model ----
(***************************************************************************)
(* Model of ts_atbuilding_vents: the Dispatcher (a one-client TCP server   *)
(* that parses command lines and calls the Controller), its monitor_status *)
(* task, and the Controller with the simulated vent hardware and the       *)
(* drive registers.                                                        *)
(*                                                                         *)
(* Both coroutines run on one asyncio event loop: a step of the model is   *)
(* the code a coroutine runs between two suspension points (await of a     *)
(* modbus operation, of the socket read, or of the tick sleep).  The vent  *)
(* operations of the Controller are synchronous and never suspend.         *)
(*                                                                         *)
(* Frequencies are fixed-point integers in hundredths of a hertz; enum     *)
(* members are their integer values, as json.dumps writes them.            *)
(***************************************************************************)
EXTENDS Integers, Sequences, FiniteSets, TLC

\* ------------------------------------------------------------------------
\* Bounds of the model
\* ------------------------------------------------------------------------

\* lines the read loop reads during one run
MaxLines == 2
\* monitor ticks (polls) during one run of Spec
MaxTicks == 2
\* monitor ticks (polls) during one run of SpecMonitor
MonitorTicks == 4
\* client connections during one run
MaxConns == 1
\* changes of the hardware made by the environment during one run of
\* SpecMonitor
MonitorEnv == 1
\* client connections, monitor ticks and changes of the drive made by the
\* environment during one run of SpecReconnect
ReConns == 2
ReTicks == 3
ReEnv == 2
\* the largest value the IPAE status register is drawn from (the drive
\* documents 0 .. 5)
MaxStatus == 7
\* Dispatcher.TELEMETRY_INTERVAL, scaled down (100 in the source, 5 in the
\* test suite): ticks the countdown is reset to after a telemetry emission
TELEMETRY_INTERVAL == 2

\* ------------------------------------------------------------------------
\* Values
\* ------------------------------------------------------------------------

\* Python None in an integer-valued local of monitor_status
None == -9
\* a local of monitor_status that was never assigned (reading it raises
\* UnboundLocalError)
Unbound == -8

\* lsst.ts.xml.enums.ATBuilding.VentGateState
CLOSED == 0
PARTIALLY_OPEN == 1
OPENED == 2
FAULT == -1

\* lsst.ts.xml.enums.ATBuilding.FanDriveState
STOPPED == 0
OPERATING == 1
DRIVE_FAULT == 2

Gates == 0 .. 3

\* Config.max_freq, in hundredths of a hertz
max_freq == 5000

\* ------------------------------------------------------------------------
\* Command registry and argument coercion (dispatcher.py)
\* ------------------------------------------------------------------------

\* Dispatcher.dispatch_dict: command name -> declared parameter kinds
dispatch_dict ==
    [ close_vent_gate |-> <<"int", "int", "int", "int">>,
      open_vent_gate |-> <<"int", "int", "int", "int">>,
      get_fan_drive_max_frequency |-> <<>>,
      reset_extraction_fan_drive |-> <<>>,
      set_extraction_fan_drive_freq |-> <<"float">>,
      set_extraction_fan_manual_control_mode |-> <<"bool">>,
      start_extraction_fan |-> <<>>,
      stop_extraction_fan |-> <<>>,
      ping |-> <<>> ]

\* white space inside a raw line (blanks, the "\r\n" terminator)
WS == " "

\* Python int(token): the tokens of the model that are integer literals
IntLiteral ==
    [ t \in {"0", "1", "2", "3", "4", "-1", "456"} |->
        CASE t = "0" -> 0
          [] t = "1" -> 1
          [] t = "2" -> 2
          [] t = "3" -> 3
          [] t = "4" -> 4
          [] t = "-1" -> 0 - 1
          [] t = "456" -> 456 ]

\* Python float(token), in hundredths: integer literals are float literals too
FloatLiteral ==
    [ t \in {"0", "1", "2", "3", "4", "-1", "456", "0.5", "12.5", "50",
             "50.01", "-0.01", "0.04", "0.25", "0.35", "12.34", "12.36",
             "49.99"} |->
        CASE t = "0.5" -> 50
          [] t = "12.5" -> 1250
          [] t = "-0.01" -> 0 - 1
          [] t = "0.04" -> 4
          [] t = "0.25" -> 25
          [] t = "0.35" -> 35
          [] t = "12.34" -> 1234
          [] t = "12.36" -> 1236
          [] t = "49.99" -> 4999
          [] t = "50" -> 5000
          [] t = "50.01" -> 5001
          [] OTHER -> 100 * IntLiteral[t] ]

\* str.lower() on the tokens of the model
Lower(t) ==
    CASE t = "True" -> "true"
      [] t = "TRUE" -> "true"
      [] t = "tRuE" -> "true"
      [] t = "T" -> "t"
      [] t = "False" -> "false"
      [] t = "FALSE" -> "false"
      [] t = "fAlSe" -> "false"
      [] t = "F" -> "f"
      [] t = "Nachos" -> "nachos"
      [] t = "Yes" -> "yes"
      [] t = "TRUE1" -> "true1"
      [] OTHER -> t

\* cast_string_to_type without the call of lower(): the tokens are compared
\* as they are
cast_string_to_type_caseSensitive(new_type, value) ==
    IF new_type = "bool"
    THEN IF value \in {"true", "t", "1"}
         THEN [ok |-> TRUE, val |-> 1]
         ELSE IF value \in {"false", "f", "0"}
              THEN [ok |-> TRUE, val |-> 0]
              ELSE [ok |-> FALSE, val |-> 0]
    ELSE IF new_type = "int"
         THEN IF value \in DOMAIN IntLiteral
              THEN [ok |-> TRUE, val |-> IntLiteral[value]]
              ELSE [ok |-> FALSE, val |-> 0]
         ELSE IF value \in DOMAIN FloatLiteral
              THEN [ok |-> TRUE, val |-> FloatLiteral[value]]
              ELSE [ok |-> FALSE, val |-> 0]

\* cast_string_to_type with int(float(value)) for the integers: a literal
\* with a fraction is truncated
cast_string_to_type_truncating(new_type, value) ==
    IF new_type = "bool"
    THEN IF Lower(value) \in {"true", "t", "1"}
         THEN [ok |-> TRUE, val |-> 1]
         ELSE IF Lower(value) \in {"false", "f", "0"}
              THEN [ok |-> TRUE, val |-> 0]
              ELSE [ok |-> FALSE, val |-> 0]
    ELSE IF value \in DOMAIN FloatLiteral
         THEN [ok |-> TRUE,
               val |-> IF new_type = "int" THEN FloatLiteral[value] \div 100
                       ELSE FloatLiteral[value]]
         ELSE [ok |-> FALSE, val |-> 0]

\* cast_string_to_type without the special case of bool: bool(value) is
\* True for every non-empty string
cast_string_to_type_generic(new_type, value) ==
    IF new_type = "bool"
    THEN [ok |-> TRUE, val |-> 1]
    ELSE IF new_type = "int"
         THEN IF value \in DOMAIN IntLiteral
              THEN [ok |-> TRUE, val |-> IntLiteral[value]]
              ELSE [ok |-> FALSE, val |-> 0]
         ELSE IF value \in DOMAIN FloatLiteral
              THEN [ok |-> TRUE, val |-> FloatLiteral[value]]
              ELSE [ok |-> FALSE, val |-> 0]

\* cast_string_to_type: [ok |-> TRUE, val |-> v] or [ok |-> FALSE] when the
\* cast raises ValueError.  bool results are 1 (True) and 0 (False).
cast_string_to_type(new_type, value) ==
    IF new_type = "bool"
    THEN IF Lower(value) \in {"true", "t", "1"}
         THEN [ok |-> TRUE, val |-> 1]
         ELSE IF Lower(value) \in {"false", "f", "0"}
              THEN [ok |-> TRUE, val |-> 0]
              ELSE [ok |-> FALSE, val |-> 0]
    ELSE IF new_type = "int"
         THEN IF value \in DOMAIN IntLiteral
              THEN [ok |-> TRUE, val |-> IntLiteral[value]]
              ELSE [ok |-> FALSE, val |-> 0]
         ELSE IF value \in DOMAIN FloatLiteral
              THEN [ok |-> TRUE, val |-> FloatLiteral[value]]
              ELSE [ok |-> FALSE, val |-> 0]

\* str.strip(): drop leading and trailing white space of a raw line
RECURSIVE LStrip(_)
LStrip(s) == IF s # <<>> /\ Head(s) = WS THEN LStrip(Tail(s)) ELSE s

RECURSIVE RStrip(_)
RStrip(s) ==
    IF s # <<>> /\ s[Len(s)] = WS THEN RStrip(SubSeq(s, 1, Len(s) - 1)) ELSE s

Strip(s) == RStrip(LStrip(s))

\* str.split(): the tokens between runs of white space
Split(s) == SelectSeq(s, LAMBDA c : c # WS)

\* ------------------------------------------------------------------------
\* Configuration (config.py)
\* ------------------------------------------------------------------------

\* Config as shipped: only vent 0 has channels assigned.  Index g + 1 of a
\* tuple belongs to vent g.
DefaultConfig ==
    [ vent_signal_ch |-> <<4, -1, -1, -1>>,
      vent_open_limit_ch |-> <<1, -1, -1, -1>>,
      vent_close_limit_ch |-> <<2, -1, -1, -1>> ]

\* a site configuration with vents 0 and 1 wired
TwoVentConfig ==
    [ vent_signal_ch |-> <<4, 3, -1, -1>>,
      vent_open_limit_ch |-> <<1, 3, -1, -1>>,
      vent_close_limit_ch |-> <<2, 4, -1, -1>> ]

Configs == {DefaultConfig, TwoVentConfig}

\* I/O channels of the simulated daughterboard that the configurations use
Channels == 1 .. 4

\* ------------------------------------------------------------------------
\* Simulated vent hardware (dome_vents_simulator.py)
\* ------------------------------------------------------------------------

\* DomeVentsSimulator.read_channel
read_channel(bits, channel_number) == bits[channel_number]

\* write_channel that moves every configured vent with the one written
write_channel_everyVent(cfg, bits, channel_number, value) ==
    LET vent_number_array ==
            {i \in Gates : cfg.vent_signal_ch[i + 1] = channel_number}
        cl == IF value # 0 THEN 0 ELSE 1
    IN  IF Cardinality(vent_number_array) = 1
        THEN [c \in Channels |->
                IF \E i \in Gates : c = cfg.vent_close_limit_ch[i + 1] THEN cl
                ELSE IF \E i \in Gates : c = cfg.vent_open_limit_ch[i + 1]
                     THEN value
                     ELSE bits[c]]
        ELSE bits

\* write_channel that moves the open limit input only
write_channel_openLimitOnly(cfg, bits, channel_number, value) ==
    LET vent_number_array ==
            {i \in Gates : cfg.vent_signal_ch[i + 1] = channel_number}
    IN  IF Cardinality(vent_number_array) = 1
        THEN LET vent_number == CHOOSE i \in vent_number_array : TRUE
             IN  [c \in Channels |->
                    IF c = cfg.vent_open_limit_ch[vent_number + 1] THEN value
                    ELSE bits[c]]
        ELSE bits

\* DomeVentsSimulator.write_channel: the vent whose signal channel is written
\* moves at once, and its two limit inputs follow
write_channel(cfg, bits, channel_number, value) ==
    LET vent_number_array ==
            {i \in Gates : cfg.vent_signal_ch[i + 1] = channel_number}
    IN  IF Cardinality(vent_number_array) = 1
        THEN LET vent_number == CHOOSE i \in vent_number_array : TRUE
                 op == value
                 cl == IF value # 0 THEN 0 ELSE 1
             IN  [c \in Channels |->
                    IF c = cfg.vent_close_limit_ch[vent_number + 1] THEN cl
                    ELSE IF c = cfg.vent_open_limit_ch[vent_number + 1] THEN op
                    ELSE bits[c]]
        ELSE bits

\* ------------------------------------------------------------------------
\* Controller, vents (controller.py)
\* ------------------------------------------------------------------------

\* vent_signal_invalid without the check of the signal channel
vent_signal_invalid_rangeOnly(cfg, vent_number) ==
    ~(0 <= vent_number /\ vent_number <= 3)

\* the vent_number checks of vent_open and vent_close: TRUE when they raise
\* ValueError
vent_signal_invalid(cfg, vent_number) ==
    \/ ~(0 <= vent_number /\ vent_number <= 3)
    \/ cfg.vent_signal_ch[vent_number + 1] = -1

\* the vent_number checks of vent_state: TRUE when they raise ValueError
vent_limit_invalid(cfg, vent_number) ==
    \/ ~(0 <= vent_number /\ vent_number <= 3)
    \/ cfg.vent_open_limit_ch[vent_number + 1] = -1
    \/ cfg.vent_close_limit_ch[vent_number + 1] = -1

\* Controller.vent_open on a valid vent: the input bits afterwards
vent_open(cfg, bits, vent_number) ==
    write_channel(cfg, bits, cfg.vent_signal_ch[vent_number + 1], 1)

\* vent_close that writes the signal the vent does not hold yet: a vent
\* that is closed already is opened
vent_close_toggling(cfg, bits, vent_number) ==
    write_channel(cfg, bits, cfg.vent_signal_ch[vent_number + 1],
                  IF bits[cfg.vent_close_limit_ch[vent_number + 1]] = 1
                  THEN 1 ELSE 0)

\* Controller.vent_close on a valid vent: the input bits afterwards
vent_close(cfg, bits, vent_number) ==
    write_channel(cfg, bits, cfg.vent_signal_ch[vent_number + 1], 0)

\* the match statement of Controller.vent_state
gate_state(op_state, cl_state) ==
    CASE op_state = 1 /\ cl_state = 0 -> OPENED
      [] op_state = 0 /\ cl_state = 0 -> PARTIALLY_OPEN
      [] op_state = 0 /\ cl_state = 1 -> CLOSED
      [] OTHER -> FAULT

\* Controller.vent_state on a configured vent
vent_state(cfg, bits, vent_number) ==
    gate_state(read_channel(bits, cfg.vent_open_limit_ch[vent_number + 1]),
               read_channel(bits, cfg.vent_close_limit_ch[vent_number + 1]))

\* ------------------------------------------------------------------------
\* Controller, drive (controller.py, vfd.py)
\* ------------------------------------------------------------------------

\* vfd.CFG_REGISTERS
CFG_REGISTERS == <<"FR1", "CHCF", "CD1", "RSF", "SLL">>
\* vfd.VFD_MANUAL
MANUAL == <<1, 1, 1, 0, 1>>
\* vfd.VFD_AUTO
AUTO == <<164, 3, 10, 162, 0>>

\* vfd.FAULT_RESET_SEQUENCE
FAULT_RESET_SEQUENCE ==
    << <<"CMD", 0>>, <<"LFRD", 0>>, <<"CMD", 4>>, <<"LFRD", 0>>,
       <<"CMD", 0>>, <<"LFRD", 0>> >>

\* round10 as int(frequency * 10): the fraction is cut off
round10_truncating(f) == f \div 10

\* Python round(frequency * 10) for a frequency in hundredths: round half to
\* even
round10(f) ==
    LET q == f \div 10
        r == f % 10
    IN  IF r < 5 THEN q
        ELSE IF r > 5 THEN q + 1
        ELSE IF q % 2 = 0 THEN q ELSE q + 1

\* Controller.set_fan_frequency: the register writes, in order
set_fan_frequency_writes(frequency) ==
    << <<"CMD", IF frequency = 0 THEN 0 ELSE 1>>,
       <<"LFR", round10(frequency)>> >>

\* frequency_invalid without the lower bound
frequency_invalid_upperOnly(frequency) == ~(frequency <= max_freq)

\* Controller.set_fan_frequency: TRUE when the range check raises ValueError
frequency_invalid(frequency) == ~(0 <= frequency /\ frequency <= max_freq)

\* fan_manual_control with the two profiles exchanged
fan_manual_control_writes_exchanged(manual) ==
    LET settings == IF manual = 1 THEN AUTO ELSE MANUAL
    IN  set_fan_frequency_writes(0)
        \o [i \in 1 .. Len(CFG_REGISTERS) |-> <<CFG_REGISTERS[i], settings[i]>>]

\* fan_manual_control that leaves the fan as it runs
fan_manual_control_writes_keepsRunning(manual) ==
    LET settings == IF manual = 1 THEN MANUAL ELSE AUTO
    IN  [i \in 1 .. Len(CFG_REGISTERS) |-> <<CFG_REGISTERS[i], settings[i]>>]

\* Controller.fan_manual_control: the register writes, in order
fan_manual_control_writes(manual) ==
    LET settings == IF manual = 1 THEN MANUAL ELSE AUTO
    IN  set_fan_frequency_writes(0)
        \o [i \in 1 .. Len(CFG_REGISTERS) |-> <<CFG_REGISTERS[i], settings[i]>>]

\* vfd_client.write_register on the drive: the registers afterwards.  The
\* drive's output frequency register RFR follows the setpoint LFR.
write_register(regs, address, value) ==
    IF address = "LFR"
    THEN [regs EXCEPT !.LFR = value, !.RFR = value]
    ELSE [regs EXCEPT ![address] = value]

\* Controller.get_fan_frequency: RFR holds tenths of a hertz
get_fan_frequency(regs) == regs.RFR * 10

\* Controller.get_drive_voltage
get_drive_voltage(regs) == regs.VOLT

\* Controller.get_max_frequency
get_max_frequency == max_freq

\* get_drive_state with the unconfigured status (5) left out of the
\* stopped ones
get_drive_state_unconfiguredFault(regs) ==
    IF regs.IPAE \in {0, 1, 2, 3} THEN STOPPED
    ELSE IF regs.IPAE = 4 THEN OPERATING
    ELSE DRIVE_FAULT

\* Controller.get_drive_state
get_drive_state(regs) ==
    IF regs.IPAE \in {0, 1, 2, 3, 5} THEN STOPPED
    ELSE IF regs.IPAE = 4 THEN OPERATING
    ELSE DRIVE_FAULT

\* Controller.last8faults: the codes of reversed(rvals.registers)
last8faults(regs) ==
    [i \in 1 .. Len(regs.FAULTS) |-> regs.FAULTS[Len(regs.FAULTS) + 1 - i]]

\* get_fan_manual_control that takes every setting other than the manual
\* profile for automatic control
get_fan_manual_control_lenient(regs) ==
    LET settings == [i \in 1 .. Len(CFG_REGISTERS) |-> regs[CFG_REGISTERS[i]]]
    IN  IF settings = MANUAL THEN 1 ELSE 0

\* Controller.get_fan_manual_control: 1 (manual), 0 (automatic), or None
\* when it raises ValueError
get_fan_manual_control(regs) ==
    LET settings == [i \in 1 .. Len(CFG_REGISTERS) |-> regs[CFG_REGISTERS[i]]]
    IN  IF settings = MANUAL THEN 1
        ELSE IF settings = AUTO THEN 0
        ELSE None

\* ------------------------------------------------------------------------
\* State
\* ------------------------------------------------------------------------

VARIABLES
    config,           \* Controller.config
    bits,             \* DomeVentsSimulator.input_bits
    regs,             \* holding registers of the drive
    connected,        \* Dispatcher.connected
    conns,            \* connections accepted so far
    reads,            \* lines read so far
    received,         \* command tokens of the non-empty lines read on this
                      \* connection, in order
    out,              \* envelopes written to this connection, in order
    rpc,              \* where the read loop is: "closed", "read", "await_hw"
    cur,              \* the request in progress: command, pending writes
    last,             \* the latest line read: the raw line, the handler
                      \* called, its Controller calls, the exception logged
    mon,              \* the monitor_status tasks, one per connection
    telemetry_count,  \* Dispatcher.telemetry_count
    ticks,            \* monitor polls so far
    envs,             \* hardware changes made by the environment so far
    silent,           \* ticks completed on this connection since the last
                      \* telemetry envelope
    probe             \* the latest direct call of the Controller: the
                      \* method, its argument, what it returned or raised

vars ==
    <<config, bits, regs, connected, conns, reads, received, out, rpc,
      cur, last, mon, telemetry_count, ticks, envs, silent, probe>>

hw == <<config, bits, regs>>

Monitors == 1 .. (IF MaxConns > ReConns THEN MaxConns ELSE ReConns)

\* the locals of monitor_status before its first tick
InitMon ==
    [ pc |-> "idle",
      vent_state |-> <<>>,
      last_fault |-> None,
      fan_drive_state |-> None,
      fan_frequency |-> None,
      drive_voltage |-> None,
      new_vent_state |-> <<>>,
      new_last_fault |-> Unbound,
      new_fan_drive_state |-> Unbound,
      new_fan_frequency |-> None ]

\* a task that has ended holds nothing
Ended(pc) == [InitMon EXCEPT !.pc = pc]

NoRequest == [command |-> "", todo |-> <<>>]
NoCalls == [line |-> <<>>, handler |-> "", calls |-> <<>>, exc |-> ""]
NoProbe == [call |-> "", arg |-> None, ret |-> None, exc |-> ""]

\* fault register blocks of the drive (FAULT_REGISTER .. FAULT_REGISTER + 7);
\* last8faults reverses the block, so its first entry is the last register
FaultBlocks ==
    { <<22, 22, 22, 22, 22, 22, 22, 22>>,
      <<9, 22, 22, 22, 22, 22, 22, 0>> }

\* IPAE status values the environment may set
StatusValues == {3, 4}

\* IPAE status values the drive may hold
StatusInputs == 0 .. MaxStatus

\* vent numbers vent_state is called with
VentNumbers == -1 .. 4

\* bus voltages, in tenths of a volt
Voltages == {3829, 3800}

InitRegs ==
    [ CMD |-> 0, LFR |-> 0, LFRD |-> 0, RFR |-> 0,
      FR1 |-> 1, CHCF |-> 1, CD1 |-> 1, RSF |-> 0, SLL |-> 1,
      IPAE |-> 3, VOLT |-> 3829,
      FAULTS |-> <<22, 22, 22, 22, 22, 22, 22, 22>> ]

Init ==
    /\ config \in Configs
    /\ bits = [c \in Channels |-> 0]
    /\ regs = InitRegs
    /\ connected = FALSE
    /\ conns = 0
    /\ reads = 0
    /\ received = <<>>
    /\ out = <<>>
    /\ rpc = "closed"
    /\ cur = NoRequest
    /\ last = NoCalls
    /\ mon = [m \in Monitors |-> InitMon]
    /\ telemetry_count = 0
    /\ ticks = 0
    /\ envs = 0
    /\ silent = 0
    /\ probe = NoProbe

\* ------------------------------------------------------------------------
\* Envelopes (the json.dumps(dict(...)) of dispatcher.py)
\* ------------------------------------------------------------------------

\* a reply has no "data" key and an event has no "return_value" key: both are
\* the empty tuple here
Envelope(command, error, exception_name, message, return_value, data) ==
    [ command |-> command, error |-> error,
      exception_name |-> exception_name, message |-> message,
      return_value |-> return_value, data |-> data ]

\* UnknownReply of a lookup that lets the KeyError of the dictionary through
UnknownReply_keyerror(command) ==
    Envelope(command, 1, "KeyError", "No such command", <<>>, <<>>)

UnknownReply(command) ==
    Envelope(command, 1, "NotImplementedError", "No such command", <<>>, <<>>)

ArityReply(command) ==
    Envelope(command, 1, "TypeError", "Error while handling command", <<>>,
             <<>>)

\* ErrorReply with the error flag left at 0
ErrorReply_flagless(command, exception_name) ==
    Envelope(command, 0, exception_name, exception_name, <<>>, <<>>)

ErrorReply(command, exception_name) ==
    Envelope(command, 1, exception_name, exception_name, <<>>, <<>>)

SuccessReply(command, return_value) ==
    Envelope(command, 0, "", "", return_value, <<>>)

Event(command, data) == Envelope(command, 0, "", "", <<>>, data)

IsReply(e) == e.data = <<>>

Replies(o) == SelectSeq(o, IsReply)

\* ------------------------------------------------------------------------
\* The client and the transport (lsst.ts.tcpip.OneClientReadLoopServer)
\* ------------------------------------------------------------------------

\* a raw line: the tokens separated by blanks, then the terminator
RECURSIVE Line(_)
Line(tokens) ==
    IF tokens = <<>> THEN <<WS>> ELSE <<Head(tokens), WS>> \o
        (IF Len(tokens) = 1 THEN <<>> ELSE Line(Tail(tokens)))

\* the lines the client of the model sends
Lines ==
    { <<WS>>, <<WS, WS>>,
      Line(<<"ping">>), <<WS, "ping", WS, WS>>,
      Line(<<"ping", "0.5">>),
      Line(<<"thisisnotacommand">>),
      Line(<<"telemetry", "1", "Nachos">>),
      Line(<<"open_vent_gate", "0", "-1", "-1", "-1">>),
      Line(<<"open_vent_gate", "-1", "1", "0", "-1">>),
      Line(<<"open_vent_gate", "0", "456", "1", "-1">>),
      Line(<<"open_vent_gate", "1", "2", "1">>),
      Line(<<"close_vent_gate", "0", "-1", "-1", "-1">>),
      Line(<<"close_vent_gate", "1", "0", "-1", "-1">>),
      Line(<<"close_vent_gate">>),
      Line(<<"close_vent_gate", "0.5", "0.5", "0.5", "0.5">>),
      Line(<<"get_fan_drive_max_frequency">>),
      Line(<<"get_fan_drive_max_frequency", "T">>),
      Line(<<"reset_extraction_fan_drive">>),
      Line(<<"reset_extraction_fan_drive", "0", "0">>),
      Line(<<"set_extraction_fan_drive_freq", "12.5">>),
      Line(<<"set_extraction_fan_drive_freq", "50.01">>),
      Line(<<"set_extraction_fan_drive_freq", "Nachos">>),
      Line(<<"set_extraction_fan_drive_freq">>),
      Line(<<"set_extraction_fan_manual_control_mode", "True">>),
      Line(<<"set_extraction_fan_manual_control_mode", "f">>),
      Line(<<"set_extraction_fan_manual_control_mode", "Nachos">>),
      Line(<<"set_extraction_fan_manual_control_mode", "sour", "cream">>),
      Line(<<"start_extraction_fan">>),
      Line(<<"start_extraction_fan", "1">>),
      Line(<<"stop_extraction_fan">>),
      Line(<<"stop_extraction_fan", "FALSE">>) }

\* the vent commands the client sends in SpecGates
GateLines ==
    { Line(<<"open_vent_gate", "0", "-1", "-1", "-1">>),
      Line(<<"open_vent_gate", "-1", "-1", "1", "0">>),
      Line(<<"open_vent_gate", "-1", "-1", "-1", "-1">>),
      Line(<<"open_vent_gate", "0", "4", "1", "-1">>),
      Line(<<"open_vent_gate", "3", "0", "-1", "-1">>),
      Line(<<"close_vent_gate", "0", "-1", "-1", "-1">>),
      Line(<<"close_vent_gate", "1", "0", "-1", "-1">>),
      Line(<<"close_vent_gate", "-1", "1", "-1", "-1">>),
      Line(<<"close_vent_gate", "456", "0", "-1", "-1">>),
      Line(<<"close_vent_gate", "1", "-1", "2", "-1">>) }

\* the tokens the client sends for the bool parameter in SpecMode
ModeTokens ==
    { "True", "TRUE", "tRuE", "true", "T", "t", "1",
      "False", "FALSE", "fAlSe", "false", "F", "f", "0",
      "Nachos", "Yes", "TRUE1", "2", "-1", "0.5" }

\* the mode commands the client sends in SpecMode
ModeLines ==
    { Line(<<"set_extraction_fan_manual_control_mode", t>>) : t \in ModeTokens }

\* the frequency commands the client sends in SpecFan
FanLines ==
    { Line(<<"set_extraction_fan_drive_freq", t>>) :
        t \in {"0", "0.04", "0.25", "0.35", "12.34", "12.36", "12.5", "49.99",
               "50", "50.01", "-0.01", "-1", "456"} }

\* the lines the client sends when the monitor runs beside the read loop
CoreLines ==
    { <<WS>>,
      Line(<<"ping">>),
      Line(<<"thisisnotacommand">>),
      Line(<<"open_vent_gate", "1", "-1", "-1", "-1">>),
      Line(<<"set_extraction_fan_drive_freq", "12.5">>) }

\* ClientConnect with the remembered values kept by the Dispatcher instead
\* of the task: the task of a later connection starts from the values of
\* the task before it
ClientConnect_keepBaseline(maxConns) ==
    /\ ~connected
    /\ rpc = "closed"
    /\ conns < maxConns
    /\ connected' = TRUE
    /\ conns' = conns + 1
    /\ received' = <<>>
    /\ out' = <<>>
    /\ rpc' = "read"
    /\ mon' = [mon EXCEPT ![conns + 1] =
                 IF conns = 0 THEN [InitMon EXCEPT !.pc = "start"]
                 ELSE [InitMon EXCEPT
                         !.pc = "start",
                         !.vent_state = mon[conns].vent_state,
                         !.last_fault = mon[conns].last_fault,
                         !.fan_drive_state = mon[conns].fan_drive_state,
                         !.fan_frequency = mon[conns].fan_frequency,
                         !.drive_voltage = mon[conns].drive_voltage]]
    /\ silent' = 0
    /\ UNCHANGED <<probe, hw, reads, cur, last, telemetry_count, ticks, envs>>

\* Dispatcher.on_connect with a client: a monitor_status task is created and
\* the read loop starts on the new stream
ClientConnect(maxConns) ==
    /\ ~connected
    /\ rpc = "closed"
    /\ conns < maxConns
    /\ connected' = TRUE
    /\ conns' = conns + 1
    /\ received' = <<>>
    /\ out' = <<>>
    /\ rpc' = "read"
    /\ mon' = [mon EXCEPT ![conns + 1] = [InitMon EXCEPT !.pc = "start"]]
    /\ silent' = 0
    /\ UNCHANGED <<probe, hw, reads, cur, last, telemetry_count, ticks, envs>>

\* the client goes away: Dispatcher.on_connect only logs, the pending
\* read_str of the read loop fails and the loop ends; a handler that is
\* suspended in the drive goes on until it writes its reply
ClientDisconnect ==
    /\ connected
    /\ connected' = FALSE
    /\ rpc' = IF rpc = "read" THEN "closed" ELSE rpc
    /\ UNCHANGED <<probe, hw, conns, reads, received, out, cur, last, mon,
                   telemetry_count, ticks, envs, silent>>

\* ------------------------------------------------------------------------
\* Dispatcher.read_and_dispatch
\* ------------------------------------------------------------------------

\* Shape with the casts made before the argument count is compared
Shape_castFirst(line) ==
    LET data == Strip(line)
        tokens == Split(data)
        command == Head(tokens)
        args == Tail(tokens)
        types == dispatch_dict[command]
    IN  IF data = <<>> THEN "empty"
        ELSE IF command \notin DOMAIN dispatch_dict THEN "unknown"
        ELSE IF \E i \in 1 .. Len(args) :
                    i <= Len(types) /\ ~cast_string_to_type(types[i], args[i]).ok
             THEN "coercion"
        ELSE IF Len(args) # Len(types) THEN "arity"
        ELSE "ok"

\* Shape with the argument count compared before the command is looked up,
\* an unknown command counting as one without parameters
Shape_countFirst(line) ==
    LET data == Strip(line)
        tokens == Split(data)
        command == Head(tokens)
        args == Tail(tokens)
        types == IF command \in DOMAIN dispatch_dict
                 THEN dispatch_dict[command] ELSE <<>>
    IN  IF data = <<>> THEN "empty"
        ELSE IF Len(args) # Len(types) THEN "arity"
        ELSE IF command \notin DOMAIN dispatch_dict THEN "unknown"
        ELSE IF \E i \in 1 .. Len(args) :
                    ~cast_string_to_type(types[i], args[i]).ok
             THEN "coercion"
        ELSE "ok"

\* the checks made on a line before its handler is called:
\* "empty", "unknown", "arity", "coercion" or "ok"
Shape(line) ==
    LET data == Strip(line)
        tokens == Split(data)
        command == Head(tokens)
        args == Tail(tokens)
        types == dispatch_dict[command]
    IN  IF data = <<>> THEN "empty"
        ELSE IF command \notin DOMAIN dispatch_dict THEN "unknown"
        ELSE IF Len(args) # Len(types) THEN "arity"
        ELSE IF \E i \in 1 .. Len(args) :
                    ~cast_string_to_type(types[i], args[i]).ok
             THEN "coercion"
        ELSE "ok"

\* [cast_string_to_type(t, arg) for t, arg in zip(types, args)]
CastArgs(types, args) ==
    [i \in 1 .. Len(args) |-> cast_string_to_type(types[i], args[i]).val]

Call(op, reg, val) == [op |-> op, reg |-> reg, val |-> val]

\* GateLoop that goes on with the slots after an invalid one and raises
\* its ValueError at the end
RECURSIVE GateLoop_skipsInvalid(_, _, _, _, _, _, _)
GateLoop_skipsInvalid(cfg, b, value, slots, i, fail, calls) ==
    IF i > Len(slots)
    THEN [bits |-> b, calls |-> calls,
          exc |-> IF \E k \in 1 .. Len(slots) :
                        /\ slots[k] # -1
                        /\ vent_signal_invalid(cfg, slots[k])
                  THEN "ValueError" ELSE ""]
    ELSE LET gate == slots[i]
             op == IF value = 1 THEN "vent_open" ELSE "vent_close"
         IN  IF gate >= 0 /\ gate <= 3 /\ ~vent_signal_invalid(cfg, gate)
             THEN GateLoop_skipsInvalid(cfg,
                                        IF value = 1 THEN vent_open(cfg, b, gate)
                                        ELSE vent_close(cfg, b, gate),
                                        value, slots, i + 1, fail,
                                        Append(calls, Call(op, "", gate)))
             ELSE GateLoop_skipsInvalid(cfg, b, value, slots, i + 1, fail,
                                        calls)

\* the loop of open_vent_gate (value 1) and close_vent_gate (value 0) from
\* slot i on; fail is the slot whose output write raises OSError (0: none).
\* Result: the input bits, the Controller calls made, the exception raised.
RECURSIVE GateLoop(_, _, _, _, _, _, _)
GateLoop(cfg, b, value, slots, i, fail, calls) ==
    IF i > Len(slots) THEN [bits |-> b, calls |-> calls, exc |-> ""]
    ELSE LET gate == slots[i]
             op == IF value = 1 THEN "vent_open" ELSE "vent_close"
         IN  IF gate >= 0 /\ gate <= 3
             THEN IF vent_signal_invalid(cfg, gate)
                  THEN [bits |-> b, calls |-> Append(calls, Call(op, "", gate)),
                        exc |-> "ValueError"]
                  ELSE IF i = fail
                  THEN [bits |-> b, calls |-> Append(calls, Call(op, "", gate)),
                        exc |-> "OSError"]
                  ELSE GateLoop(cfg,
                                IF value = 1 THEN vent_open(cfg, b, gate)
                                ELSE vent_close(cfg, b, gate),
                                value, slots, i + 1, fail,
                                Append(calls, Call(op, "", gate)))
             ELSE IF gate # -1
                  THEN [bits |-> b, calls |-> calls, exc |-> "ValueError"]
                  ELSE GateLoop(cfg, b, value, slots, i + 1, fail, calls)

\* the register writes a drive command makes, in order, or <<>> when
\* the command raises ValueError before its first write
DriveWrites(command, args) ==
    CASE command = "reset_extraction_fan_drive" -> FAULT_RESET_SEQUENCE
      [] command = "set_extraction_fan_drive_freq" ->
            IF frequency_invalid(args[1]) THEN <<>>
            ELSE set_fan_frequency_writes(args[1])
      [] command = "set_extraction_fan_manual_control_mode" ->
            fan_manual_control_writes(args[1])
      [] command = "start_extraction_fan" -> set_fan_frequency_writes(max_freq)
      [] command = "stop_extraction_fan" -> set_fan_frequency_writes(0)

\* Dispatcher.respond: write_str raises ConnectionError without a client
CanRespond == connected

\* CanRead of a read loop that does not await the handler
CanRead_pipelined == rpc \in {"read", "await_hw"}

\* the read loop awaits read_and_dispatch before it calls it again
CanRead == rpc = "read"

\* the record kept of a line
Trace(handler, calls, exc) ==
    [line |-> <<>>, handler |-> handler, calls |-> calls, exc |-> exc]

\* the outcome of a line whose handler is not called
Rejected(envelopes, exc) ==
    [ env |-> envelopes, bits |-> bits, rpc |-> "read", cur |-> NoRequest,
      last |-> Trace("", <<>>, exc) ]

\* the Controller method a drive command calls
DriveCall(command, args) ==
    CASE command = "reset_extraction_fan_drive" -> Call("vfd_fault_reset", "", 0)
      [] command = "set_extraction_fan_drive_freq" ->
            Call("set_fan_frequency", "", args[1])
      [] command = "set_extraction_fan_manual_control_mode" ->
            Call("fan_manual_control", "", args[1])
      [] command = "start_extraction_fan" -> Call("start_fan", "", 0)
      [] command = "stop_extraction_fan" -> Call("stop_fan", "", 0)

\* getattr(self, command)(*args) up to the reply or to the first await of a
\* register write
Handler(command, args, fail) ==
    CASE command \in {"open_vent_gate", "close_vent_gate"} ->
            LET r == GateLoop(config, bits,
                              IF command = "open_vent_gate" THEN 1 ELSE 0,
                              args, 1, fail, <<>>)
            IN  [ env |-> << IF r.exc = "" THEN SuccessReply(command, <<>>)
                             ELSE ErrorReply(command, r.exc) >>,
                  bits |-> r.bits, rpc |-> "read", cur |-> NoRequest,
                  last |-> Trace(command, r.calls, r.exc) ]
      [] command = "get_fan_drive_max_frequency" ->
            [ env |-> <<SuccessReply(command, <<get_max_frequency>>)>>,
              bits |-> bits, rpc |-> "read", cur |-> NoRequest,
              last |-> Trace(command, <<Call("get_max_frequency", "", 0)>>,
                             "") ]
      [] command = "ping" ->
            [ env |-> <<SuccessReply(command, <<>>)>>,
              bits |-> bits, rpc |-> "read", cur |-> NoRequest,
              last |-> Trace(command, <<>>, "") ]
      [] OTHER ->
            LET todo == DriveWrites(command, args)
                calls == <<DriveCall(command, args)>>
            IN  IF todo = <<>>
                THEN [ env |-> <<ErrorReply(command, "ValueError")>>,
                       bits |-> bits, rpc |-> "read", cur |-> NoRequest,
                       last |-> Trace(command, calls, "ValueError") ]
                ELSE [ env |-> <<>>, bits |-> bits, rpc |-> "await_hw",
                       cur |-> [command |-> command, todo |-> todo],
                       last |-> Trace(command, calls, "") ]

\* Dispatch that answers an empty line with an error reply
Dispatch_answersEmpty(line, fail) ==
    LET shape == Shape(line)
        tokens == Split(Strip(line))
        command == Head(tokens)
        args == Tail(tokens)
    IN  CASE shape = "empty" -> Rejected(<<UnknownReply("")>>, "")
          [] shape = "unknown" -> Rejected(<<UnknownReply(command)>>, "")
          [] shape = "arity" -> Rejected(<<ArityReply(command)>>, "")
          [] shape = "coercion" ->
                Rejected(<<ErrorReply(command, "ValueError")>>, "ValueError")
          [] OTHER -> Handler(command, CastArgs(dispatch_dict[command], args),
                              fail)

\* read_and_dispatch from the line read up to its reply or to the first
\* await inside its handler
Dispatch(line, fail) ==
    LET shape == Shape(line)
        tokens == Split(Strip(line))
        command == Head(tokens)
        args == Tail(tokens)
    IN  CASE shape = "empty" -> Rejected(<<>>, "")
          [] shape = "unknown" -> Rejected(<<UnknownReply(command)>>, "")
          [] shape = "arity" -> Rejected(<<ArityReply(command)>>, "")
          [] shape = "coercion" ->
                Rejected(<<ErrorReply(command, "ValueError")>>, "ValueError")
          [] OTHER -> Handler(command, CastArgs(dispatch_dict[command], args),
                              fail)

\* read_str returns the next line the client has sent and read_and_dispatch
\* handles it
ReadLine(lines) ==
    /\ connected
    /\ CanRead
    /\ reads < MaxLines
    /\ reads' = reads + 1
    /\ \E line \in lines, fail \in 0 .. 4 :
         LET d == Dispatch(line, fail)
         IN  /\ out' = out \o d.env
             /\ bits' = d.bits
             /\ rpc' = d.rpc
             /\ cur' = d.cur
             /\ last' = [d.last EXCEPT !.line = line]
             /\ received' = IF Shape(line) = "empty" THEN received
                            ELSE Append(received, Head(Split(Strip(line))))
    /\ UNCHANGED <<probe, config, regs, connected, conns, mon, telemetry_count,
                   ticks, envs, silent>>

\* Finish without the call of respond
Finish_silent(envelope) ==
    /\ out' = out
    /\ rpc' = IF CanRespond THEN "read" ELSE "closed"

\* the reply of a handler that has ended, with or without an exception: one
\* envelope, or the end of the read loop when the client is gone (respond
\* raises inside the try block and again inside the except block)
Finish(envelope) ==
    IF CanRespond
    THEN /\ out' = Append(out, envelope)
         /\ rpc' = "read"
    ELSE /\ out' = out
         /\ rpc' = "closed"

\* the register write a handler awaits completes, or fails with a
\* ModbusException
RequestHw ==
    /\ rpc = "await_hw"
    /\ cur.todo # <<>>
    /\ \E ok \in BOOLEAN :
         IF ok
         THEN /\ regs' = write_register(regs, Head(cur.todo)[1],
                                        Head(cur.todo)[2])
              /\ IF Len(cur.todo) = 1
                 THEN /\ Finish(SuccessReply(cur.command, <<>>))
                      /\ cur' = NoRequest
                 ELSE /\ cur' = [cur EXCEPT !.todo = Tail(cur.todo)]
                      /\ UNCHANGED <<out, rpc>>
              /\ last' = last
         ELSE /\ regs' = regs
              /\ Finish(ErrorReply(cur.command, "ModbusException"))
              /\ cur' = NoRequest
              /\ last' = [last EXCEPT !.exc = "ModbusException"]
    /\ UNCHANGED <<probe, config, bits, connected, conns, reads, received,
                   mon, telemetry_count, ticks, envs, silent>>

\* ------------------------------------------------------------------------
\* Dispatcher.monitor_status
\* ------------------------------------------------------------------------

\* what vent_state returns for the four vents; a vent that is not configured
\* raises ValueError and keeps the CLOSED it was initialised with
HwVector(cfg, b) ==
    [g \in 1 .. 4 |->
        IF vent_limit_invalid(cfg, g - 1) THEN CLOSED
        ELSE vent_state(cfg, b, g - 1)]

\* new_vent_state when the read of vent failAt raises an exception that is
\* not a ValueError (failAt = 4: every read returns): the vents before it
\* were read, the others keep CLOSED
PolledVector(cfg, b, failAt) ==
    [g \in 1 .. 4 |-> IF g - 1 < failAt THEN HwVector(cfg, b)[g] ELSE CLOSED]

\* Compare with the drive state compared, and its event written, before
\* the vent state and the last fault
Compare_stateFirst(r, o) ==
    LET u3 == r.new_fan_drive_state = Unbound
        d3 == r.fan_drive_state # r.new_fan_drive_state
        x3 == u3 \/ (d3 /\ ~CanRespond)
        o3 == IF d3 /\ ~x3
              THEN Append(o, Event("evt_extraction_fan_drive_state",
                                   <<r.new_fan_drive_state>>))
              ELSE o
        r3 == IF d3 /\ ~x3
              THEN [r EXCEPT !.fan_drive_state = r.new_fan_drive_state]
              ELSE r
        d1 == r.vent_state # r.new_vent_state
        x1 == x3 \/ (d1 /\ ~CanRespond)
        o1 == IF d1 /\ ~x1
              THEN Append(o3, Event("evt_vent_gate_state", r.new_vent_state))
              ELSE o3
        r1 == IF d1 /\ ~x1 THEN [r3 EXCEPT !.vent_state = r.new_vent_state]
              ELSE r3
        u2 == r.new_last_fault = Unbound
        d2 == r.last_fault # r.new_last_fault
        x2 == x1 \/ u2 \/ (d2 /\ ~CanRespond)
        o2 == IF d2 /\ ~x2
              THEN Append(o1, Event("evt_extraction_fan_drive_fault_code",
                                    <<r.new_last_fault>>))
              ELSE o1
        r2 == IF d2 /\ ~x2 THEN [r1 EXCEPT !.last_fault = r.new_last_fault]
              ELSE r1
    IN  IF x2 THEN [m |-> Ended("crashed"), out |-> o2, alive |-> FALSE]
        ELSE [m |-> [r2 EXCEPT !.pc = "await_freq"], out |-> o2,
              alive |-> TRUE]

\* the three comparisons of a tick, from "Check whether the vent state has
\* changed" up to the call of get_fan_frequency.  r: the locals of the task,
\* o: the stream.  The task ends (alive = FALSE) when respond raises
\* ConnectionError or when a new_ local was never assigned.
Compare(r, o) ==
    LET d1 == r.vent_state # r.new_vent_state
        x1 == d1 /\ ~CanRespond
        o1 == IF d1 /\ ~x1
              THEN Append(o, Event("evt_vent_gate_state", r.new_vent_state))
              ELSE o
        r1 == IF d1 /\ ~x1 THEN [r EXCEPT !.vent_state = r.new_vent_state]
              ELSE r
        u2 == r.new_last_fault = Unbound
        d2 == r.last_fault # r.new_last_fault
        x2 == x1 \/ u2 \/ (d2 /\ ~CanRespond)
        o2 == IF d2 /\ ~x2
              THEN Append(o1, Event("evt_extraction_fan_drive_fault_code",
                                    <<r.new_last_fault>>))
              ELSE o1
        r2 == IF d2 /\ ~x2 THEN [r1 EXCEPT !.last_fault = r.new_last_fault]
              ELSE r1
        u3 == r.new_fan_drive_state = Unbound
        d3 == r.fan_drive_state # r.new_fan_drive_state
        x3 == x2 \/ u3 \/ (d3 /\ ~CanRespond)
        o3 == IF d3 /\ ~x3
              THEN Append(o2, Event("evt_extraction_fan_drive_state",
                                    <<r.new_fan_drive_state>>))
              ELSE o2
        r3 == IF d3 /\ ~x3
              THEN [r2 EXCEPT !.fan_drive_state = r.new_fan_drive_state]
              ELSE r2
    IN  IF x3 THEN [m |-> Ended("crashed"), out |-> o3, alive |-> FALSE]
        ELSE [m |-> [r3 EXCEPT !.pc = "await_freq"], out |-> o3,
              alive |-> TRUE]

\* the comparisons of task m with the locals r
DoCompare(m, r) ==
    LET c == Compare(r, out)
    IN  /\ mon' = [mon EXCEPT ![m] = c.m]
        /\ out' = c.out
        /\ telemetry_count' =
             IF c.alive THEN telemetry_count - 1 ELSE telemetry_count

\* the task starts, or its sleep ends: the loop condition, the vent reads
\* and the call of last8faults
MonitorPoll(m, maxTicks) ==
    /\ mon[m].pc \in {"start", "sleep"}
    /\ IF ~connected
       THEN /\ mon' = [mon EXCEPT ![m] = Ended("done")]
            /\ UNCHANGED <<out, telemetry_count, ticks>>
       ELSE /\ ticks < maxTicks
            /\ ticks' = ticks + 1
            /\ \E failAt \in 0 .. 4 :
                 /\ failAt < 4 => ~vent_limit_invalid(config, failAt)
                 /\ LET r == [mon[m] EXCEPT !.new_vent_state =
                                  PolledVector(config, bits, failAt)]
                    IN  IF failAt = 4
                        THEN /\ mon' = [mon EXCEPT
                                          ![m] = [r EXCEPT !.pc = "await_faults"]]
                             /\ UNCHANGED <<out, telemetry_count>>
                        ELSE DoCompare(m, r)
    /\ UNCHANGED <<probe, hw, connected, conns, reads, received, rpc, cur,
                   last, envs, silent>>

\* last8faults returns, or raises
MonitorFaults(m) ==
    /\ mon[m].pc = "await_faults"
    /\ \E ok \in BOOLEAN :
         IF ok
         THEN /\ mon' = [mon EXCEPT ![m] =
                           [@ EXCEPT !.new_last_fault = last8faults(regs)[1],
                                     !.pc = "await_state"]]
              /\ UNCHANGED <<out, telemetry_count>>
         ELSE DoCompare(m, mon[m])
    /\ UNCHANGED <<probe, hw, connected, conns, reads, received, rpc, cur,
                   last, ticks, envs, silent>>

\* get_drive_state returns, or raises; the comparisons follow
MonitorState(m) ==
    /\ mon[m].pc = "await_state"
    /\ \E ok \in BOOLEAN :
         IF ok
         THEN DoCompare(m, [mon[m] EXCEPT
                              !.new_fan_drive_state = get_drive_state(regs)])
         ELSE DoCompare(m, mon[m])
    /\ UNCHANGED <<probe, hw, connected, conns, reads, received, rpc, cur,
                   last, ticks, envs, silent>>

\* get_fan_frequency returns, or raises outside the try block
MonitorFreq(m) ==
    /\ mon[m].pc = "await_freq"
    /\ \E ok \in BOOLEAN :
         mon' = [mon EXCEPT ![m] =
                   IF ok
                   THEN [@ EXCEPT !.new_fan_frequency = get_fan_frequency(regs),
                                  !.pc = "await_volt"]
                   ELSE Ended("crashed")]
    /\ UNCHANGED <<probe, hw, connected, conns, reads, received, out, rpc, cur,
                   last, telemetry_count, ticks, envs, silent>>

\* the condition under which a tick sends telemetry
TelemetryDue(r, count, new_drive_voltage) ==
    \/ count < 0
    \/ r.new_fan_frequency # r.fan_frequency
    \/ new_drive_voltage # r.drive_voltage

\* get_drive_voltage returns, or raises outside the try block; the telemetry
\* envelope and the start of the sleep follow
MonitorVolt(m) ==
    /\ mon[m].pc = "await_volt"
    /\ \E ok \in BOOLEAN :
         IF ~ok
         THEN /\ mon' = [mon EXCEPT ![m] = Ended("crashed")]
              /\ UNCHANGED <<out, telemetry_count, silent>>
         ELSE LET r == mon[m]
                  new_drive_voltage == get_drive_voltage(regs)
              IN  IF TelemetryDue(r, telemetry_count, new_drive_voltage)
                  THEN /\ telemetry_count' = TELEMETRY_INTERVAL
                       /\ IF CanRespond
                          THEN /\ out' = Append(out,
                                    Event("telemetry",
                                          <<r.new_fan_frequency,
                                            new_drive_voltage>>))
                               /\ mon' = [mon EXCEPT ![m] =
                                    [r EXCEPT
                                       !.fan_frequency = r.new_fan_frequency,
                                       !.drive_voltage = new_drive_voltage,
                                       !.pc = "sleep"]]
                               /\ silent' = 0
                          ELSE /\ mon' = [mon EXCEPT ![m] = Ended("crashed")]
                               /\ UNCHANGED <<out, silent>>
                  ELSE /\ mon' = [mon EXCEPT ![m] = [r EXCEPT !.pc = "sleep"]]
                       /\ silent' = IF connected THEN silent + 1 ELSE silent
                       /\ UNCHANGED <<out, telemetry_count>>
    /\ UNCHANGED <<probe, hw, connected, conns, reads, received, rpc, cur,
                   last, ticks, envs>>

\* ------------------------------------------------------------------------
\* The environment: the vents move and the drive changes by itself
\* ------------------------------------------------------------------------

\* DomeVentsSimulator.set_bits on the limit inputs of a configured vent
EnvSetBits(maxEnv) ==
    /\ envs < maxEnv
    /\ \E g \in Gates, op \in {0, 1}, cl \in {0, 1} :
         /\ ~vent_limit_invalid(config, g)
         /\ bits' = [bits EXCEPT ![config.vent_open_limit_ch[g + 1]] = op,
                                 ![config.vent_close_limit_ch[g + 1]] = cl]
         /\ bits' # bits
    /\ envs' = envs + 1
    /\ UNCHANGED <<probe, config, regs, connected, conns, reads, received, out,
                   rpc, cur, last, mon, telemetry_count, ticks, silent>>

\* the drive records a fault, changes its status or its bus voltage moves
EnvDrive(maxEnv) ==
    /\ envs < maxEnv
    /\ \/ \E f \in FaultBlocks : regs' = [regs EXCEPT !.FAULTS = f]
       \/ \E v \in StatusValues : regs' = [regs EXCEPT !.IPAE = v]
       \/ \E v \in Voltages : regs' = [regs EXCEPT !.VOLT = v]
    /\ regs' # regs
    /\ envs' = envs + 1
    /\ UNCHANGED <<probe, config, bits, connected, conns, reads, received, out,
                   rpc, cur, last, mon, telemetry_count, ticks, silent>>

\* the program: the read loop and the monitor tasks on one event loop; the
\* hardware changes only by the commands
Next ==
    \/ ClientConnect(MaxConns)
    \/ ClientDisconnect
    \/ ReadLine(CoreLines)
    \/ RequestHw
    \/ \E m \in Monitors : MonitorPoll(m, MaxTicks)
    \/ \E m \in Monitors : MonitorFaults(m)
    \/ \E m \in Monitors : MonitorState(m)
    \/ \E m \in Monitors : MonitorFreq(m)
    \/ \E m \in Monitors : MonitorVolt(m)

Spec == Init /\ [][Next]_vars

\* the read loop alone, on every line of the model
NextDispatch ==
    \/ ClientConnect(MaxConns)
    \/ ClientDisconnect
    \/ ReadLine(Lines)
    \/ RequestHw

SpecDispatch == Init /\ [][NextDispatch]_vars

\* the monitor tasks alone, over more ticks, with a hardware that changes by
\* itself
NextMonitor ==
    \/ ClientConnect(MaxConns)
    \/ ClientDisconnect
    \/ \E m \in Monitors : MonitorPoll(m, MonitorTicks)
    \/ \E m \in Monitors : MonitorFaults(m)
    \/ \E m \in Monitors : MonitorState(m)
    \/ \E m \in Monitors : MonitorFreq(m)
    \/ \E m \in Monitors : MonitorVolt(m)
    \/ EnvSetBits(MonitorEnv)
    \/ EnvDrive(MonitorEnv)

SpecMonitor == Init /\ [][NextMonitor]_vars

\* the monitor tasks over a client that goes away and comes back, with a
\* drive that changes by itself
NextReconnect ==
    \/ ClientConnect(ReConns)
    \/ ClientDisconnect
    \/ \E m \in Monitors : MonitorPoll(m, ReTicks)
    \/ \E m \in Monitors : MonitorFaults(m)
    \/ \E m \in Monitors : MonitorState(m)
    \/ \E m \in Monitors : MonitorFreq(m)
    \/ \E m \in Monitors : MonitorVolt(m)
    \/ EnvDrive(ReEnv)

SpecReconnect == Init /\ [][NextReconnect]_vars

\* ------------------------------------------------------------------------
\* The Controller called directly, on drawn inputs (tests/test_megaind.py,
\* tests/test_fan.py)
\* ------------------------------------------------------------------------

\* the state with the digital inputs and the IPAE status register as the
\* hardware holds them when the program starts
InitInputs ==
    /\ config \in Configs
    /\ bits \in [Channels -> {0, 1}]
    /\ \E ipae \in StatusInputs : regs = [InitRegs EXCEPT !.IPAE = ipae]
    /\ connected = FALSE
    /\ conns = 0
    /\ reads = 0
    /\ received = <<>>
    /\ out = <<>>
    /\ rpc = "closed"
    /\ cur = NoRequest
    /\ last = NoCalls
    /\ mon = [m \in Monitors |-> InitMon]
    /\ telemetry_count = 0
    /\ ticks = 0
    /\ envs = 0
    /\ silent = 0
    /\ probe = NoProbe

\* Controller.vent_state as a call: what it returns or raises.  VentGateState
\* is imported from lsst.ts.xml (controller.py 24); when that enumeration has
\* no FAULT member (tests/test_megaind.py 48-52) the last case of the match
\* statement raises AttributeError.
vent_state_call(cfg, b, vent_number, has_FAULT) ==
    IF vent_limit_invalid(cfg, vent_number)
    THEN [ret |-> None, exc |-> "ValueError"]
    ELSE LET state == vent_state(cfg, b, vent_number)
         IN  IF state = FAULT /\ ~has_FAULT
             THEN [ret |-> None, exc |-> "AttributeError"]
             ELSE [ret |-> state, exc |-> ""]

\* controller.vent_state(vent_number)
VentStateCall ==
    /\ \E vent_number \in VentNumbers, has_FAULT \in BOOLEAN :
         LET r == vent_state_call(config, bits, vent_number, has_FAULT)
         IN  probe' = [call |-> "vent_state", arg |-> vent_number,
                       ret |-> r.ret, exc |-> r.exc]
    /\ UNCHANGED <<hw, connected, conns, reads, received, out, rpc, cur,
                   last, mon, telemetry_count, ticks, envs, silent>>

\* await controller.get_drive_state(): the register read returns, or fails
\* with a ModbusException
GetDriveStateCall ==
    /\ \E ok \in BOOLEAN :
         probe' = [call |-> "get_drive_state", arg |-> regs.IPAE,
                   ret |-> IF ok THEN get_drive_state(regs) ELSE None,
                   exc |-> IF ok THEN "" ELSE "ModbusException"]
    /\ UNCHANGED <<hw, connected, conns, reads, received, out, rpc, cur,
                   last, mon, telemetry_count, ticks, envs, silent>>

NextController ==
    \/ VentStateCall
    \/ GetDriveStateCall

SpecController == InitInputs /\ [][NextController]_vars

\* the vent commands, on vents found in any position
NextGates ==
    \/ ClientConnect(MaxConns)
    \/ ClientDisconnect
    \/ ReadLine(GateLines)

\* the drawn inputs with the drive as it starts
InitGates == InitInputs /\ regs = InitRegs

SpecGates == InitGates /\ [][NextGates]_vars

\* the drive as a client may find it: configured for manual or for automatic
\* control, stopped or running at 12.5 Hz
DriveInputs ==
    { [InitRegs EXCEPT !.FR1 = p[1], !.CHCF = p[2], !.CD1 = p[3],
                       !.RSF = p[4], !.SLL = p[5],
                       !.CMD = r[1], !.LFR = r[2], !.RFR = r[2]] :
        p \in {MANUAL, AUTO}, r \in {<<0, 0>>, <<1, 125>>} }

InitDrive ==
    /\ config \in Configs
    /\ bits = [c \in Channels |-> 0]
    /\ regs \in DriveInputs
    /\ connected = FALSE
    /\ conns = 0
    /\ reads = 0
    /\ received = <<>>
    /\ out = <<>>
    /\ rpc = "closed"
    /\ cur = NoRequest
    /\ last = NoCalls
    /\ mon = [m \in Monitors |-> InitMon]
    /\ telemetry_count = 0
    /\ ticks = 0
    /\ envs = 0
    /\ silent = 0
    /\ probe = NoProbe

\* the mode command and its register writes
NextMode ==
    \/ ClientConnect(MaxConns)
    \/ ClientDisconnect
    \/ ReadLine(ModeLines)
    \/ RequestHw

SpecMode == InitDrive /\ [][NextMode]_vars

\* the frequency command and its register writes
NextFan ==
    \/ ClientConnect(MaxConns)
    \/ ClientDisconnect
    \/ ReadLine(FanLines)
    \/ RequestHw

SpecFan == Init /\ [][NextFan]_vars

\* ------------------------------------------------------------------------
\* Properties of the read loop beside the monitor (Spec)
\* ------------------------------------------------------------------------

\* C1: the replies on the stream are, in order, the replies to the non-empty
\* lines read: one per line, the i-th reply answering the i-th line, whatever
\* events lie between them.  Only the line whose handler is still suspended,
\* or was suspended when the client went away, has no reply yet.
C1_OneReplyPerLineInOrder ==
    LET rep == Replies(out)
    IN  /\ Len(rep) <= Len(received)
        /\ \A i \in 1 .. Len(rep) : rep[i].command = received[i]
        /\ Len(received) - Len(rep) <= 1
        /\ rpc = "read" => Len(rep) = Len(received)
        /\ rpc = "await_hw" => Len(rep) = Len(received) - 1

\* two lines were answered and a monitor envelope lies between the replies
C1_Witness ==
    /\ Len(received) = 2
    /\ \E i, j, k \in 1 .. Len(out) :
         /\ i < j /\ j < k
         /\ IsReply(out[i]) /\ ~IsReply(out[j]) /\ IsReply(out[k])

\* C2: a line is read only when no handler is in progress and every line
\* read before it has its reply on the stream
C2_RequestThenReply ==
    [][reads' > reads =>
         /\ cur = NoRequest
         /\ Len(Replies(out)) = Len(received)]_vars

\* a second line was read after a command that suspends in the drive
C2_Witness ==
    /\ Len(received) = 2
    /\ received[1] = "set_extraction_fan_drive_freq"
    /\ Len(Replies(out)) = 2

\* C3: when an exception is caught while a connected client's command is
\* handled, that step writes one reply with the command name, a non-zero
\* error flag, the exception's name and a message, the client stays
\* connected and the read loop goes back to reading
C3_HandlerFailureAnswered ==
    [][(connected /\ last'.exc # "" /\ (reads' > reads \/ last.exc = ""))
         => /\ connected'
            /\ rpc' = "read"
            /\ Len(out') = Len(out) + 1
            /\ SubSeq(out', 1, Len(out)) = out
            /\ LET e == out'[Len(out')]
               IN  /\ IsReply(e)
                   /\ e.command = received'[Len(received')]
                   /\ e.error # 0
                   /\ e.exception_name = last'.exc
                   /\ e.message # ""]_vars

\* a command failed in the drive and a later line was answered
C3_Witness ==
    \E i, k \in 1 .. Len(out) :
        /\ i < k
        /\ out[i].exception_name = "ModbusException"
        /\ out[i].error = 1
        /\ IsReply(out[k])

\* ------------------------------------------------------------------------
\* Properties of the checks made on a line (SpecDispatch)
\* ------------------------------------------------------------------------

\* the nine registered command names
RegisteredNames ==
    { "close_vent_gate", "open_vent_gate", "get_fan_drive_max_frequency",
      "reset_extraction_fan_drive", "set_extraction_fan_drive_freq",
      "set_extraction_fan_manual_control_mode", "start_extraction_fan",
      "stop_extraction_fan", "ping" }

\* the tokens of a raw line
Tokens(line) == SelectSeq(line, LAMBDA c : c # WS)

\* the tokens of the model that are valid literals of a kind
ValidLiteral(kind, token) ==
    CASE kind = "int" -> token \in {"0", "1", "2", "3", "4", "-1", "456"}
      [] kind = "float" ->
            token \in {"0", "1", "2", "3", "4", "-1", "456", "0.5", "12.5",
                       "50", "50.01", "-0.01", "0.04", "0.25", "0.35",
                       "12.34", "12.36", "49.99"}
      [] kind = "bool" ->
            token \in {"True", "true", "T", "t", "1",
                       "False", "FALSE", "false", "F", "f", "0"}

WrongArity(line) ==
    LET t == Tokens(line)
    IN  /\ t # <<>>
        /\ Head(t) \in RegisteredNames
        /\ Len(Tail(t)) # Len(dispatch_dict[Head(t)])

BadLiteral(line) ==
    LET t == Tokens(line)
    IN  /\ t # <<>>
        /\ Head(t) \in RegisteredNames
        /\ Len(Tail(t)) = Len(dispatch_dict[Head(t)])
        /\ \E i \in 1 .. Len(Tail(t)) :
             ~ValidLiteral(dispatch_dict[Head(t)][i], Tail(t)[i])

UnknownName(line) ==
    LET t == Tokens(line)
    IN  t # <<>> /\ Head(t) \notin RegisteredNames

\* this step wrote exactly one envelope: a reply to the line just read, with
\* the error flag set and the given exception name
OneErrorReply(exception_name) ==
    /\ Len(out') = Len(out) + 1
    /\ SubSeq(out', 1, Len(out)) = out
    /\ LET e == out'[Len(out')]
       IN  /\ IsReply(e)
           /\ e.command = Head(Tokens(last'.line))
           /\ e.error = 1
           /\ e.exception_name = exception_name

\* C4: reading a line with an unknown command, a wrong argument count or a
\* token that is no literal of its kind calls no handler and no Controller
\* operation, and leaves the vent inputs and the drive registers as they were
C4_MalformedLineTouchesNothing ==
    [][(reads' > reads
        /\ (UnknownName(last'.line) \/ WrongArity(last'.line)
            \/ BadLiteral(last'.line)))
         => /\ hw' = hw
            /\ last'.handler = ""
            /\ last'.calls = <<>>
            /\ cur' = NoRequest]_vars

\* vent 0 was opened by the first line and the second line was malformed
C4_Witness ==
    /\ reads = 2
    /\ BadLiteral(last.line)
    /\ bits[1] = 1

\* C5: a non-empty line whose first token is not a registered name gets
\* exactly one NotImplementedError reply that echoes the token, and no
\* handler is called
C5_UnknownCommand ==
    [][(reads' > reads /\ UnknownName(last'.line))
         => /\ OneErrorReply("NotImplementedError")
            /\ last'.handler = ""]_vars

\* an unknown command with arguments was answered
C5_Witness ==
    /\ Len(Tokens(last.line)) = 3
    /\ UnknownName(last.line)
    /\ out # <<>>
    /\ out[Len(out)].exception_name = "NotImplementedError"

C8_EmptyLineIgnored ==
    [][(reads' > reads /\ Tokens(last'.line) = <<>>)
         => /\ out' = out
            /\ hw' = hw
            /\ received' = received
            /\ last'.handler = ""
            /\ last'.calls = <<>>
            /\ rpc' = "read"]_vars

\* a command was answered and the empty line read after it was not
C8_Witness ==
    /\ reads = 2
    /\ Tokens(last.line) = <<>>
    /\ Len(last.line) = 2
    /\ Len(out) = 1
    /\ rpc = "read"

\* ------------------------------------------------------------------------
\* Properties of the monitor (SpecMonitor)
\* ------------------------------------------------------------------------

\* the evt_vent_gate_state envelopes of a stream, and the vector carried by
\* the last of them (<<>>: none was emitted yet)
GateEvents(o) == SelectSeq(o, LAMBDA e : e.command = "evt_vent_gate_state")

LastGateData(o) ==
    IF GateEvents(o) = <<>> THEN <<>>
    ELSE GateEvents(o)[Len(GateEvents(o))].data

\* this step makes the comparisons of a tick of task m
CompareStep(m) ==
    /\ mon[m].pc \in {"start", "sleep", "await_faults", "await_state"}
    /\ mon'[m].pc \in {"await_freq", "crashed"}

\* the gate states of the hardware that the tick of task m has in hand at
\* its comparisons: the vector it read when every read returned, the state of
\* the inputs when a read raised and the comparisons follow in the same step
GatesOfTick(m) ==
    IF mon[m].pc \in {"start", "sleep"} THEN HwVector(config, bits)
    ELSE mon[m].new_vent_state

\* C9: while the client is connected, a tick emits evt_vent_gate_state, with
\* the gate states of the hardware, if and only if these differ from the
\* vector of the last evt_vent_gate_state of the connection (or there is
\* none yet); a tick on which they are the same emits none
C9_GateEventPerTransition ==
    [][\A m \in Monitors :
         (connected /\ CompareStep(m))
           => GateEvents(out') =
                IF GatesOfTick(m) # LastGateData(out)
                THEN Append(GateEvents(out),
                            Event("evt_vent_gate_state", GatesOfTick(m)))
                ELSE GateEvents(out)]_vars

\* the inputs never moved and vent 0 is partially open, yet a second
\* evt_vent_gate_state reports it closed
C9_Witness ==
    /\ envs = 0
    /\ connected
    /\ HwVector(config, bits)[1] = PARTIALLY_OPEN
    /\ Len(GateEvents(out)) = 2
    /\ GateEvents(out)[1].data = HwVector(config, bits)
    /\ GateEvents(out)[2].data[1] = CLOSED

\* C10: while the client is connected and the fan frequency and the bus
\* voltage stay as they are, no TELEMETRY_INTERVAL ticks in a row go by
\* without a telemetry envelope
C10_TelemetryEveryInterval == connected => silent < TELEMETRY_INTERVAL

\* TELEMETRY_INTERVAL ticks in a row sent no telemetry, on a drive that never
\* changed, and the countdown has only reached zero
C10_Witness ==
    /\ connected
    /\ envs = 0
    /\ silent = TELEMETRY_INTERVAL
    /\ telemetry_count = 0
    /\ \E i \in 1 .. Len(out) : out[i].command = "telemetry"

\* the telemetry envelopes of a stream
TelemetryEvents(o) == SelectSeq(o, LAMBDA e : e.command = "telemetry")

\* this step ends a tick of task m on which get_fan_frequency and
\* get_drive_voltage both returned, with the client connected
TelemetryStep(m) ==
    /\ connected
    /\ mon[m].pc = "await_volt"
    /\ mon'[m].pc = "sleep"

\* the fan frequency and the bus voltage read on the tick of task m that
\* ends now
ReadOfTick(m) == <<mon[m].new_fan_frequency, get_drive_voltage(regs)>>

\* C11: a tick that reads a fan frequency or a bus voltage other than those
\* of the last telemetry envelope of the connection sends a telemetry
\* envelope with both values read, and every telemetry envelope sent sets
\* the countdown to TELEMETRY_INTERVAL
C11_TelemetryOnChange ==
    [][/\ \A m \in Monitors :
            (/\ TelemetryStep(m)
             /\ TelemetryEvents(out) # <<>>
             /\ ReadOfTick(m) #
                  TelemetryEvents(out)[Len(TelemetryEvents(out))].data)
              => out' = Append(out, Event("telemetry", ReadOfTick(m)))
       /\ Len(TelemetryEvents(out')) > Len(TelemetryEvents(out))
            => telemetry_count' = TELEMETRY_INTERVAL]_vars

\* a leaked task of the first connection is about to end a tick of the
\* second connection without telemetry, though the voltage it read is not the
\* one of the last telemetry envelope
C11_Witness ==
    /\ connected
    /\ conns = 2
    /\ mon[1].pc = "await_volt"
    /\ TelemetryEvents(out) # <<>>
    /\ ReadOfTick(1) # TelemetryEvents(out)[Len(TelemetryEvents(out))].data
    /\ ReadOfTick(1) = <<mon[1].fan_frequency, mon[1].drive_voltage>>
    /\ telemetry_count >= 0

\* the order of the envelopes of the monitor
Rank(command) ==
    CASE command = "evt_vent_gate_state" -> 1
      [] command = "evt_extraction_fan_drive_fault_code" -> 2
      [] command = "evt_extraction_fan_drive_state" -> 3
      [] command = "telemetry" -> 4
      [] OTHER -> 0

\* the envelopes written by this step
Written == SubSeq(out', Len(out) + 1, Len(out'))

\* C12: the envelopes a monitor task writes in one step of a tick come in the
\* order evt_vent_gate_state, evt_extraction_fan_drive_fault_code,
\* evt_extraction_fan_drive_state; they are written by the comparisons, and
\* the telemetry envelope only by the later step of the tick that follows
\* the read of the bus voltage
C12_EventOrder ==
    [][\A m \in Monitors :
         (mon'[m] # mon[m] /\ conns' = conns /\ Len(out') > Len(out))
           => /\ SubSeq(out', 1, Len(out)) = out
              /\ \A i, j \in 1 .. Len(Written) :
                   i < j => Rank(Written[i].command) < Rank(Written[j].command)
              /\ \A i \in 1 .. Len(Written) :
                   /\ Rank(Written[i].command) \in 1 .. 3
                        => mon'[m].pc \in {"await_freq", "crashed"}
                   /\ Rank(Written[i].command) = 4
                        => mon[m].pc = "await_volt" /\ mon'[m].pc = "sleep"
                   /\ Rank(Written[i].command) # 0]_vars

\* after the four envelopes of the first tick, a later tick on which the
\* last fault and the drive state had both changed wrote their two events,
\* in this order
C12_Witness ==
    /\ conns = 1
    /\ envs = 2
    /\ Len(out) >= 6
    /\ Rank(out[1].command) = 1
    /\ Rank(out[2].command) = 2
    /\ Rank(out[3].command) = 3
    /\ Rank(out[4].command) = 4
    /\ Rank(out[5].command) = 2
    /\ Rank(out[6].command) = 3

\* ------------------------------------------------------------------------
\* Properties of the monitor over connections (SpecReconnect, SpecMonitor)
\* ------------------------------------------------------------------------

\* the pcs of a task that has not started or has returned
Stopped == {"idle", "done", "crashed"}

\* C13: at most one monitor task is running at any instant, and a task
\* started for an earlier connection takes no step during a later connection
\* other than to end
C13_MonitorWithinConnection ==
    [][/\ Cardinality({m \in Monitors : mon'[m].pc \notin Stopped}) <= 1
       /\ \A m \in Monitors :
            (m < conns /\ connected /\ mon'[m] # mon[m])
              => mon'[m].pc \in Stopped]_vars

\* the task of the first connection is in the middle of a tick while the
\* task of the second connection runs
C13_Witness ==
    /\ connected
    /\ conns = 2
    /\ mon[1].pc = "await_state"
    /\ mon[2].pc = "sleep"

\* C14: when the client disconnects while a monitor task is in its sleep,
\* the task ends at the disconnection
C14_SleepCancelledOnDisconnect ==
    [][(connected /\ ~connected')
         => \A m \in Monitors : mon[m].pc = "sleep" => mon'[m].pc = "done"]_vars

\* the client is gone and the task of its connection is still in its sleep
C14_Witness ==
    /\ ~connected
    /\ conns = 1
    /\ mon[1].pc = "sleep"

\* C15: once the client of its connection has disconnected, a monitor task
\* writes no envelope
C15_SilentAfterDisconnect ==
    [][\A m \in Monitors :
         (mon'[m] # mon[m] /\ conns' = conns /\ (~connected \/ m < conns))
           => out' = out]_vars

\* the task of the second connection has not run yet and the stream of the
\* second connection already carries a telemetry envelope
C15_Witness ==
    /\ connected
    /\ conns = 2
    /\ mon[2].pc = "start"
    /\ TelemetryEvents(out) # <<>>

\* the stream carries, in this order, a gate event, a fault event and a drive
\* state event with the given data
CarriesEvents(o, gates, fault, state) ==
    \E i \in 1 .. Len(o) :
        /\ o[i] = Event("evt_vent_gate_state", gates)
        /\ \E j \in i + 1 .. Len(o) :
             /\ o[j] = Event("evt_extraction_fan_drive_fault_code", <<fault>>)
             /\ \E k \in j + 1 .. Len(o) :
                  o[k] = Event("evt_extraction_fan_drive_state", <<state>>)

\* the stream carries, in this order, an envelope of each of the four kinds
\* of the monitor
CarriesFirstTick(o) ==
    \E i \in 1 .. Len(o) :
        /\ Rank(o[i].command) = 1
        /\ \E j \in i + 1 .. Len(o) :
             /\ Rank(o[j].command) = 2
             /\ \E k \in j + 1 .. Len(o) :
                  /\ Rank(o[k].command) = 3
                  /\ \E l \in k + 1 .. Len(o) : Rank(o[l].command) = 4

\* C16: the task of every connection starts without remembered values, so
\* that its first tick writes to the stream of the connection a gate event,
\* a fault event and a drive state event with the values it read and then a
\* telemetry envelope, whatever the tasks of earlier connections remembered
\* and whatever the countdown they left
C16_FreshBaseline ==
    \A m \in Monitors :
        m = conns =>
          /\ mon[m].pc = "start" =>
               /\ mon[m].vent_state = <<>>
               /\ mon[m].last_fault = None
               /\ mon[m].fan_drive_state = None
               /\ mon[m].fan_frequency = None
               /\ mon[m].drive_voltage = None
          /\ (mon[m].pc \in {"await_freq", "await_volt"}
              /\ mon[m].fan_frequency = None) =>
               CarriesEvents(out, mon[m].new_vent_state,
                             mon[m].new_last_fault, mon[m].new_fan_drive_state)
          /\ mon[m].pc = "sleep" =>
               /\ CarriesFirstTick(out)
               /\ \E l \in 1 .. Len(out) :
                    out[l] = Event("telemetry", <<mon[m].fan_frequency,
                                                  mon[m].drive_voltage>>)

\* the task of the first connection remembered another voltage and left
\* the countdown running; the task of the second connection has made its
\* first tick and the stream carries its telemetry envelope
C16_Witness ==
    /\ conns = 2
    /\ mon[2].pc = "sleep"
    /\ mon[1].pc = "done"
    /\ mon[1].drive_voltage = None
    /\ envs >= 1
    /\ telemetry_count = TELEMETRY_INTERVAL
    /\ Len(TelemetryEvents(out)) = 1
    /\ TelemetryEvents(out)[1].data[2] = 3800

\* this step is the failure of a read of the guarded batch of a tick of task
\* m, with the client connected: the comparisons follow the read of the
\* vents or the call of last8faults in the same step, or get_drive_state
\* raised on the first tick and the task ended
GuardedReadFails(m) ==
    /\ connected
    /\ \/ /\ mon[m].pc \in {"start", "sleep", "await_faults"}
          /\ mon'[m].pc \in {"await_freq", "crashed"}
       \/ /\ mon[m].pc = "await_state"
          /\ mon'[m].pc = "crashed"

\* C17: a tick on which a read of the guarded batch fails writes no event
\* and leaves the remembered gate vector, fault code and drive state as they
\* were
C17_FailedReadSkipsDetection ==
    [][\A m \in Monitors :
         GuardedReadFails(m)
           => /\ out' = out
              /\ mon'[m].vent_state = mon[m].vent_state
              /\ mon'[m].last_fault = mon[m].last_fault
              /\ mon'[m].fan_drive_state = mon[m].fan_drive_state]_vars

\* the first tick of the connection wrote a gate event and nothing else, and
\* the task has ended with the client connected
C17_Witness ==
    /\ connected
    /\ conns = 1
    /\ mon[1].pc = "crashed"
    /\ Len(out) = 1
    /\ out[1].command = "evt_vent_gate_state"

\* C18: while the client is connected the monitor task of the connection
\* has not ended
C18_MonitorKeepsTicking == connected => mon[conns].pc # "crashed"

\* the task made a whole tick, began another one and has ended with the
\* client connected
C18_Witness ==
    /\ connected
    /\ conns = 1
    /\ mon[1].pc = "crashed"
    /\ ticks = 2
    /\ Len(TelemetryEvents(out)) = 1
    /\ telemetry_count = TELEMETRY_INTERVAL - 1

\* the state of the four vents: CLOSED for a vent without limit inputs, the
\* state shown by its limit inputs for a configured vent
RealGates(cfg, b) ==
    [g \in 1 .. 4 |->
        IF cfg.vent_open_limit_ch[g] = -1 \/ cfg.vent_close_limit_ch[g] = -1
        THEN CLOSED
        ELSE vent_state(cfg, b, g - 1)]

\* C19: every tick polls the four vents, a vent that is not configured
\* counting as CLOSED, and every evt_vent_gate_state carries four entries,
\* the state of the four vents polled on its tick
C19_AllGatesPolled ==
    [][\A m \in Monitors :
         (connected /\ conns' = conns /\ mon'[m] # mon[m])
           => /\ (mon[m].pc \in {"start", "sleep"}
                  /\ mon'[m].pc = "await_faults")
                   => mon'[m].new_vent_state = RealGates(config, bits)
              /\ \A i \in 1 .. Len(Written) :
                   Written[i].command = "evt_vent_gate_state"
                     => /\ Len(Written[i].data) = 4
                        /\ Written[i].data =
                             IF mon[m].pc \in {"start", "sleep"}
                             THEN RealGates(config, bits)
                             ELSE mon[m].new_vent_state]_vars

\* two vents are configured and partially open, and the only gate event
\* reports the second one closed
C19_Witness ==
    /\ connected
    /\ envs = 0
    /\ RealGates(config, bits) =
         <<PARTIALLY_OPEN, PARTIALLY_OPEN, CLOSED, CLOSED>>
    /\ Len(GateEvents(out)) = 1
    /\ GateEvents(out)[1].data = <<PARTIALLY_OPEN, CLOSED, CLOSED, CLOSED>>

\* ------------------------------------------------------------------------
\* Replies and unsolicited envelopes
\* ------------------------------------------------------------------------

\* the command names of the envelopes of the monitor
MonitorName(command) ==
    command \in { "telemetry", "evt_vent_gate_state",
                  "evt_extraction_fan_drive_fault_code",
                  "evt_extraction_fan_drive_state" }

\* C20: the envelopes named telemetry or evt_... are those of the monitor
\* and no reply to a line carries such a name
C20_RepliesNamedApart ==
    \A i \in 1 .. Len(out) : MonitorName(out[i].command) <=> ~IsReply(out[i])

\* the stream carries an error reply named telemetry
C20_Witness ==
    \E i \in 1 .. Len(out) :
        /\ out[i].command = "telemetry"
        /\ out[i].error = 1
        /\ IsReply(out[i])

\* ------------------------------------------------------------------------
\* Calls of the Controller in flight
\* ------------------------------------------------------------------------

\* the read loop is suspended in a handler that awaits a register write
HandlerWriting == rpc = "await_hw" /\ cur.todo # <<>>

\* monitor task m is suspended in a read of the drive
MonitorReading(m) ==
    mon[m].pc \in {"await_faults", "await_state", "await_freq", "await_volt"}

\* the number of register writes of the handlers of the drive
WritesOf(command) ==
    CASE command = "set_extraction_fan_manual_control_mode" ->
            Len(fan_manual_control_writes(TRUE))
      [] command = "reset_extraction_fan_drive" -> Len(FAULT_RESET_SEQUENCE)
      [] OTHER -> Len(set_fan_frequency_writes(0))

\* the handler has completed some of its register writes and not all
PartlyWritten ==
    /\ HandlerWriting
    /\ Len(cur.todo) < WritesOf(cur.command)

\* C21: the read loop and the monitor never both have a call of the
\* Controller in flight
C21_OneCallInFlight ==
    ~(HandlerWriting /\ \E m \in Monitors : MonitorReading(m))

\* the first register write of set_fan_frequency and a read of the monitor
\* are both awaited
C21_Witness ==
    /\ HandlerWriting
    /\ cur.command = "set_extraction_fan_drive_freq"
    /\ Len(cur.todo) = WritesOf(cur.command)
    /\ \E m \in Monitors : MonitorReading(m)

\* C22: no read of the monitor completes between the register writes of one
\* handler
C22_WriteSequenceAtomic ==
    [][PartlyWritten =>
         \A m \in Monitors :
            MonitorReading(m) => mon'[m].pc = mon[m].pc]_vars

\* CMD_REGISTER is written, LFR_REGISTER is not, and the monitor awaits the
\* drive state after its fault read has returned
C22_Witness ==
    /\ PartlyWritten
    /\ cur.command = "set_extraction_fan_drive_freq"
    /\ regs.CMD = 1
    /\ regs.LFR = 0
    /\ \E m \in Monitors : mon[m].pc = "await_state"

\* ------------------------------------------------------------------------
\* Lookups of the Controller (SpecController)
\* ------------------------------------------------------------------------

\* the open and close limit inputs of a configured vent
OpenLimit(vent_number) == bits[config.vent_open_limit_ch[vent_number + 1]]
CloseLimit(vent_number) == bits[config.vent_close_limit_ch[vent_number + 1]]

\* the latest call was vent_state on a configured vent
GateQueried ==
    /\ probe.call = "vent_state"
    /\ ~vent_limit_invalid(config, probe.arg)

\* C23: the state query of a configured vent returns OPENED for the limit
\* inputs (open 1, close 0), PARTIALLY_OPEN for (0, 0), CLOSED for (0, 1)
\* and FAULT for (1, 1), four different states
C23_GateStateMapping ==
    /\ Cardinality({OPENED, PARTIALLY_OPEN, CLOSED, FAULT}) = 4
    /\ GateQueried =>
         /\ probe.exc = ""
         /\ probe.ret =
              CASE OpenLimit(probe.arg) = 1 /\ CloseLimit(probe.arg) = 0 ->
                      OPENED
                [] OpenLimit(probe.arg) = 0 /\ CloseLimit(probe.arg) = 0 ->
                      PARTIALLY_OPEN
                [] OpenLimit(probe.arg) = 0 /\ CloseLimit(probe.arg) = 1 ->
                      CLOSED
                [] OpenLimit(probe.arg) = 1 /\ CloseLimit(probe.arg) = 1 ->
                      FAULT

\* both limit inputs of vent 0 are active and its state query raised
\* AttributeError
C23_Witness ==
    /\ GateQueried
    /\ probe.arg = 0
    /\ OpenLimit(0) = 1
    /\ CloseLimit(0) = 1
    /\ probe.exc = "AttributeError"

\* C30: get_drive_state returns STOPPED for the IPAE values 0, 1, 2, 3 and
\* 5, OPERATING for 4 and the fault state for every other value
C30_DriveStateLookup ==
    (probe.call = "get_drive_state" /\ probe.exc = "") =>
        probe.ret = CASE regs.IPAE \in {0, 1, 2, 3, 5} -> STOPPED
                      [] regs.IPAE = 4 -> OPERATING
                      [] OTHER -> DRIVE_FAULT

\* the drive is unconfigured (5) and was reported stopped
C30_Witness ==
    /\ probe.call = "get_drive_state"
    /\ regs.IPAE = 5
    /\ probe.ret = STOPPED

\* ------------------------------------------------------------------------
\* The vent commands (SpecGates)
\* ------------------------------------------------------------------------

\* this step read a line that reached the handler of a vent command
GateCommandStep ==
    /\ reads' = reads + 1
    /\ last'.handler \in {"open_vent_gate", "close_vent_gate"}

\* the four slots of a vent command line
Slots(line) == [k \in 1 .. 4 |-> IntLiteral[Tokens(line)[k + 1]]]

\* the vents a sequence of slots names
Named(slots) == {slots[k] : k \in 1 .. Len(slots)} \ {0 - 1}

\* the limit input channels of a set of configured vents
LimitChannels(vents) ==
    UNION { {config.vent_open_limit_ch[g + 1],
             config.vent_close_limit_ch[g + 1]} : g \in vents }

\* a slot the handler answers with ValueError: out of range and not -1, or
\* a vent without a signal channel
BadSlot(gate) ==
    /\ gate # 0 - 1
    /\ \/ ~(0 <= gate /\ gate <= 3)
       \/ config.vent_signal_ch[gate + 1] = 0 - 1

\* C24: after a successful open_vent_gate the state query of every vent it
\* names returns OPENED, after a successful close_vent_gate CLOSED, whatever
\* position the vent was in; the vents no slot names are left as they were
C24_GateCommandSetsState ==
    [][(GateCommandStep /\ last'.exc = "") =>
         LET named == Named(Slots(last'.line))
             want == IF last'.handler = "open_vent_gate" THEN OPENED
                     ELSE CLOSED
         IN  /\ \A g \in named :
                  vent_state_call(config, bits', g, TRUE) =
                     [ret |-> want, exc |-> ""]
             /\ \A c \in Channels \ LimitChannels(named) : bits'[c] = bits[c]
             /\ Len(last'.calls) =
                  Cardinality({k \in 1 .. 4 : Slots(last'.line)[k] # 0 - 1})]_vars

\* both vents are configured and one open_vent_gate naming both in the last
\* two slots has opened them
C24_Witness ==
    /\ config = TwoVentConfig
    /\ last.line = Line(<<"open_vent_gate", "-1", "-1", "1", "0">>)
    /\ last.exc = ""
    /\ Len(last.calls) = 2
    /\ vent_state(config, bits, 0) = OPENED
    /\ vent_state(config, bits, 1) = OPENED

\* C25: a successful vent command repeated at once leaves every input as
\* the first application left it
C25_GateCommandIdempotent ==
    [][(/\ GateCommandStep
        /\ last'.exc = ""
        /\ last.exc = ""
        /\ last.line = last'.line) => bits' = bits]_vars

\* close_vent_gate 0 was answered with success twice in a row
C25_Witness ==
    /\ config = DefaultConfig
    /\ reads = 2
    /\ received = <<"close_vent_gate", "close_vent_gate">>
    /\ Len(Replies(out)) = 2
    /\ \A i \in 1 .. 2 : Replies(out)[i].error = 0
    /\ last.line = Line(<<"close_vent_gate", "0", "-1", "-1", "-1">>)
    /\ vent_state(config, bits, 0) = CLOSED

\* C26: a vent command with a slot that is neither -1 nor 0 .. 3, or that
\* names a vent that is not configured, is answered with ValueError, and
\* only vents named before that slot have moved
C26_InvalidGateRejected ==
    [][(/\ GateCommandStep
        /\ last'.exc # "OSError"
        /\ \E k \in 1 .. 4 : BadSlot(Slots(last'.line)[k])) =>
         LET slots == Slots(last'.line)
             first == CHOOSE k \in 1 .. 4 :
                         /\ BadSlot(slots[k])
                         /\ \A j \in 1 .. k - 1 : ~BadSlot(slots[j])
             before == Named(SubSeq(slots, 1, first - 1))
         IN  /\ OneErrorReply("ValueError")
             /\ \A c \in Channels \ LimitChannels(before) :
                  bits'[c] = bits[c]
             /\ \A i \in 1 .. Len(last'.calls) :
                  last'.calls[i].val \in 0 .. 3]_vars

\* vent 0 was opened, slot value 4 raised ValueError and the vent after it
\* was not called
C26_Witness ==
    /\ last.line = Line(<<"open_vent_gate", "0", "4", "1", "-1">>)
    /\ last.exc = "ValueError"
    /\ Len(last.calls) = 1
    /\ vent_state(config, bits, 0) = OPENED
    /\ out # <<>>
    /\ out[Len(out)].exception_name = "ValueError"

\* ------------------------------------------------------------------------
\* The frequency command (SpecFan)
\* ------------------------------------------------------------------------

\* the frequency a set_extraction_fan_drive_freq line asks for, in
\* hundredths of a hertz
Asked(line) == FloatLiteral[Tokens(line)[2]]

\* C27: set_extraction_fan_drive_freq with a frequency below 0 or above the
\* configured maximum is answered with ValueError at once: no register is
\* written and no write is left pending
C27_FrequencyRangeChecked ==
    [][(/\ reads' = reads + 1
        /\ last'.handler = "set_extraction_fan_drive_freq"
        /\ (Asked(last'.line) < 0 \/ Asked(last'.line) > 5000)) =>
         /\ OneErrorReply("ValueError")
         /\ regs' = regs
         /\ rpc' = "read"
         /\ cur' = NoRequest]_vars

\* a frequency just below zero was refused and the drive holds what it held
C27_Witness ==
    /\ last.line = Line(<<"set_extraction_fan_drive_freq", "-0.01">>)
    /\ last.exc = "ValueError"
    /\ regs = InitRegs
    /\ out # <<>>
    /\ out[Len(out)].command = "set_extraction_fan_drive_freq"
    /\ out[Len(out)].exception_name = "ValueError"

FaultEvents(o) ==
    SelectSeq(o, LAMBDA e : e.command = "evt_extraction_fan_drive_fault_code")

\* the fault code carried by the last of them (None: none was emitted yet)
LastFaultData(o) ==
    IF FaultEvents(o) = <<>> THEN None
    ELSE FaultEvents(o)[Len(FaultEvents(o))].data[1]

\* this step makes the comparisons of a tick of task m on which last8faults
\* has returned, with the client connected
FaultStep(m) ==
    /\ connected
    /\ mon[m].pc = "await_state"
    /\ mon'[m].pc \in {"await_freq", "crashed"}

\* C29: the fault code a tick has read is the first entry of last8faults, and
\* the tick emits evt_extraction_fan_drive_fault_code with it if and only if
\* it differs from the code of the last such envelope of the connection (or
\* there is none yet): once on the first tick, then on changes only
C29_FaultEventOnChange ==
    [][\A m \in Monitors :
         /\ (mon[m].pc = "await_faults" /\ mon'[m].pc = "await_state")
              => mon'[m].new_last_fault = last8faults(regs)[1]
         /\ FaultStep(m)
              => FaultEvents(out') =
                   IF mon[m].new_last_fault # LastFaultData(out)
                   THEN Append(FaultEvents(out),
                               Event("evt_extraction_fan_drive_fault_code",
                                     <<mon[m].new_last_fault>>))
                   ELSE FaultEvents(out)]_vars

\* the second connection carries the same fault code twice in a row: once
\* from its own task and once from the task left over from the first
C29_Witness ==
    /\ connected
    /\ conns = 2
    /\ Len(FaultEvents(out)) >= 2
    /\ \E i \in 1 .. Len(FaultEvents(out)) - 1 :
          FaultEvents(out)[i].data = FaultEvents(out)[i + 1].data

\* ------------------------------------------------------------------------
\* The mode command (SpecMode)
\* ------------------------------------------------------------------------

\* the tokens that read true and those that read false, in any case
TrueTokens == {"True", "TRUE", "tRuE", "true", "T", "t", "1"}
FalseTokens == {"False", "FALSE", "fAlSe", "false", "F", "f", "0"}

\* this step read a set_extraction_fan_manual_control_mode line with one
\* argument
ModeStep ==
    /\ reads' = reads + 1
    /\ Len(Tokens(last'.line)) = 2
    /\ Head(Tokens(last'.line)) = "set_extraction_fan_manual_control_mode"

ModeAsked == IF Tokens(last.line)[2] \in TrueTokens THEN 1 ELSE 0

\* this step completes the last register write of a mode command
ModeDone ==
    /\ cur.command = "set_extraction_fan_manual_control_mode"
    /\ cur' = NoRequest
    /\ last'.exc = ""

\* C32: when fan_manual_control(m) has completed, get_fan_manual_control
\* returns m, whichever profile the drive held before
C32_ModeRoundTrip ==
    [][ModeDone => get_fan_manual_control(regs') = ModeAsked]_vars

\* two mode commands have succeeded, the second one asked for automatic
\* control and the drive reports automatic control
C32_Witness ==
    /\ reads = 2
    /\ received = << "set_extraction_fan_manual_control_mode",
                     "set_extraction_fan_manual_control_mode" >>
    /\ Len(Replies(out)) = 2
    /\ \A i \in 1 .. 2 : Replies(out)[i].error = 0
    /\ Tokens(last.line)[2] \in FalseTokens
    /\ get_fan_manual_control(regs) = 0

\* the registers of the run command and of the frequency setpoint
StopRegisters == {"CMD", "LFR"}

\* C35: a mode command writes zero to the run command and to the frequency
\* setpoint before it writes any configuration register, and when it has
\* completed both hold zero
C35_ModeSwitchStopsFan ==
    [][/\ (ModeStep /\ last'.handler # "") =>
            LET todo == cur'.todo
            IN  /\ {todo[1][1], todo[2][1]} = StopRegisters
                /\ todo[1][2] = 0
                /\ todo[2][2] = 0
                /\ \A i \in 3 .. Len(todo) : todo[i][1] \notin StopRegisters
       /\ ModeDone => (regs'.CMD = 0 /\ regs'.LFR = 0)]_vars

\* manual control was asked for on a drive in automatic control: the run
\* command and the setpoint are written, to zero, and no configuration
\* register is written yet
C35_Witness ==
    /\ cur.command = "set_extraction_fan_manual_control_mode"
    /\ Len(cur.todo) = Len(CFG_REGISTERS)
    /\ ModeAsked = 1
    /\ get_fan_manual_control(regs) = 0
    /\ regs.CMD = 0
    /\ regs.LFR = 0

\* C36: when a mode command that changes the profile fails after one to four
\* of its five configuration register writes, the settings of the drive
\* match neither profile and get_fan_manual_control raises ValueError
C36_InterruptedModeSwitch ==
    [][(/\ cur.command = "set_extraction_fan_manual_control_mode"
        /\ Len(cur.todo) \in 1 .. 4
        /\ last'.exc = "ModbusException"
        /\ LET other == IF ModeAsked = 1 THEN AUTO ELSE MANUAL
           IN  \A i \in 1 .. Len(CFG_REGISTERS) :
                  i > Len(CFG_REGISTERS) - Len(cur.todo)
                     => regs[CFG_REGISTERS[i]] = other[i])
         => /\ get_fan_manual_control(regs') = None
            /\ [i \in 1 .. Len(CFG_REGISTERS) |-> regs'[CFG_REGISTERS[i]]]
                  \notin {MANUAL, AUTO}]_vars

\* a mode command has failed with a ModbusException and the drive is left
\* between the profiles
C36_Witness ==
    /\ last.handler = "set_extraction_fan_manual_control_mode"
    /\ last.exc = "ModbusException"
    /\ cur = NoRequest
    /\ get_fan_manual_control(regs) = None
    /\ regs.FR1 \in {MANUAL[1], AUTO[1]}
    /\ regs.SLL \in {MANUAL[5], AUTO[5]}
    /\ (regs.FR1 = MANUAL[1]) # (regs.SLL = MANUAL[5])

\* ------------------------------------------------------------------------
\* Order of the checks on a line (SpecDispatch)
\* ------------------------------------------------------------------------

\* a registered command one of whose arguments, as far as its parameter list
\* reaches, is no literal of its kind, whatever the number of arguments
HasBadToken(line) ==
    LET t == Tokens(line)
    IN  /\ t # <<>>
        /\ Head(t) \in RegisteredNames
        /\ \E i \in 1 .. Len(Tail(t)) :
             /\ i <= Len(dispatch_dict[Head(t)])
             /\ ~ValidLiteral(dispatch_dict[Head(t)][i], Tail(t)[i])

\* the exception name of the first check a line fails: the command lookup,
\* then the argument count, then the literals ("": it fails none)
FirstFailure(line) ==
    IF UnknownName(line) THEN "NotImplementedError"
    ELSE IF WrongArity(line) THEN "TypeError"
    ELSE IF HasBadToken(line) THEN "ValueError"
    ELSE ""

\* C33: a line that fails a check is answered with the error of the first
\* check it fails, in the order command lookup, argument count, literals,
\* and with nothing else, also when it fails later checks too
C33_CheckPrecedence ==
    [][(reads' > reads /\ Tokens(last'.line) # <<>>
        /\ FirstFailure(last'.line) # "")
         => /\ OneErrorReply(FirstFailure(last'.line))
            /\ last'.handler = ""]_vars

\* a mode command with two arguments, neither of them a bool literal, was
\* answered with TypeError, and an unknown command with arguments with
\* NotImplementedError
C33_Witness ==
    /\ reads = 2
    /\ Len(out) = 2
    /\ WrongArity(last.line)
    /\ HasBadToken(last.line)
    /\ out[2].exception_name = "TypeError"
    /\ out[1].command = "telemetry"
    /\ out[1].exception_name = "NotImplementedError"

\* ------------------------------------------------------------------------
\* Order of the slots of a vent command (SpecGates)
\* ------------------------------------------------------------------------

\* the vent numbers of a sequence of Controller calls
Vals(calls) == [i \in 1 .. Len(calls) |-> calls[i].val]

\* the slots of a sequence that name a vent, in order
NamedInOrder(slots) == SelectSeq(slots, LAMBDA g : g # 0 - 1)

\* C34: the slots are handled from left to right.  With no invalid slot the
\* vents are called in slot order; with one, the vents named before the
\* first invalid slot are called in order and stand open (or closed), the
\* call for the invalid slot (when it is in range) is the last one made, no
\* vent named after it is called or moved, and the one reply is a
\* ValueError
C34_SlotsLeftToRight ==
    [][(GateCommandStep /\ last'.exc # "OSError") =>
         LET slots == Slots(last'.line)
             bad == {k \in 1 .. 4 : BadSlot(slots[k])}
             want == IF last'.handler = "open_vent_gate" THEN OPENED
                     ELSE CLOSED
         IN  IF bad = {}
             THEN Vals(last'.calls) = NamedInOrder(slots)
             ELSE LET first == CHOOSE k \in bad : \A j \in bad : k <= j
                      before == NamedInOrder(SubSeq(slots, 1, first - 1))
                  IN  /\ OneErrorReply("ValueError")
                      /\ Vals(last'.calls) =
                           before \o (IF slots[first] \in 0 .. 3
                                      THEN <<slots[first]>> ELSE <<>>)
                      /\ \A g \in Named(before) :
                           vent_state(config, bits', g) = want
                      /\ \A c \in Channels \ LimitChannels(Named(before)) :
                           bits'[c] = bits[c]]_vars

\* both vents are configured: vent 0 was opened, slot value 4 raised
\* ValueError, and vent 1, named after it, is not open
C34_Witness ==
    /\ config = TwoVentConfig
    /\ last.line = Line(<<"open_vent_gate", "0", "4", "1", "-1">>)
    /\ last.exc = "ValueError"
    /\ Vals(last.calls) = <<0>>
    /\ vent_state(config, bits, 0) = OPENED
    /\ vent_state(config, bits, 1) # OPENED
    /\ out # <<>>
    /\ out[Len(out)].error = 1

\* C40: a vent command that succeeds leaves every vent it does not name as
\* it was: the state query of such a vent returns, or raises, the same
\* before and after, and no drive register changes
C40_OtherGatesUntouched ==
    [][(GateCommandStep /\ last'.exc = "") =>
         /\ \A j \in VentNumbers \ Named(Slots(last'.line)) :
              \A has_FAULT \in BOOLEAN :
                 vent_state_call(config, bits', j, has_FAULT) =
                    vent_state_call(config, bits, j, has_FAULT)
         /\ regs' = regs]_vars

\* both vents are configured: vent 0 alone was closed by the last line and
\* vent 1 stands open
C40_Witness ==
    /\ config = TwoVentConfig
    /\ last.line = Line(<<"close_vent_gate", "0", "-1", "-1", "-1">>)
    /\ last.exc = ""
    /\ vent_state(config, bits, 0) = CLOSED
    /\ vent_state(config, bits, 1) = OPENED

\* ------------------------------------------------------------------------
\* Run command and setpoint (SpecFan)
\* ------------------------------------------------------------------------

\* this step completes the last register write of a frequency command
FrequencyDone ==
    /\ cur.command = "set_extraction_fan_drive_freq"
    /\ cur' = NoRequest
    /\ last'.exc = ""

\* C37: when set_fan_frequency has completed, the run command register is 1
\* if and only if the setpoint register is not zero, and the setpoint
\* register lies within 0 .. 500 (tenths of a hertz, for a maximum of 50 Hz)
C37_RunCommandMatchesSetpoint ==
    [][FrequencyDone =>
         /\ (regs'.CMD = 1) <=> (regs'.LFR # 0)
         /\ regs'.CMD \in {0, 1}
         /\ regs'.LFR \in 0 .. 500]_vars

\* 0.04 Hz was asked for with success: the drive is told to run with a
\* setpoint of zero
C37_Witness ==
    /\ last.line = Line(<<"set_extraction_fan_drive_freq", "0.04">>)
    /\ last.exc = ""
    /\ cur = NoRequest
    /\ regs.CMD = 1
    /\ regs.LFR = 0
    /\ out # <<>>
    /\ out[Len(out)].error = 0

\* ------------------------------------------------------------------------
\* Remembered values and emitted events (SpecMonitor, SpecReconnect)
\* ------------------------------------------------------------------------

EventKinds == {"evt_vent_gate_state", "evt_extraction_fan_drive_fault_code",
               "evt_extraction_fan_drive_state"}

\* the event envelopes of one kind on the stream
EventsOf(o, kind) == SelectSeq(o, LAMBDA e : e.command = kind)

\* the data of the last of them (<<>>: none was emitted on this connection)
LastEventData(o, kind) ==
    IF EventsOf(o, kind) = <<>> THEN <<>>
    ELSE EventsOf(o, kind)[Len(EventsOf(o, kind))].data

\* the value task locals r remember for a kind, as the data of its event
\* (<<>>: the None the task starts with)
Remembered(r, kind) ==
    IF kind = "evt_vent_gate_state" THEN r.vent_state
    ELSE LET v == IF kind = "evt_extraction_fan_drive_fault_code"
                  THEN r.last_fault
                  ELSE r.fan_drive_state
         IN  IF v = None THEN <<>> ELSE <<v>>

\* this step ends the comparisons of a tick of task m, or the tick itself
TickEnd(m) ==
    \/ CompareStep(m) /\ mon'[m].pc = "await_freq"
    \/ mon[m].pc = "await_volt" /\ mon'[m].pc = "sleep"

\* this step is one of task m, which is still running after it
TaskStep(m) ==
    /\ mon'[m] # mon[m]
    /\ mon[m].pc \notin {"idle", "done", "crashed"}
    /\ mon'[m].pc \notin {"start", "done", "crashed"}

\* C38: at the end of a tick each remembered value (gate vector, fault code,
\* drive state) is the data of the last event envelope of its kind on the
\* connection, and a step of the task changes a remembered value if and only
\* if it emits the event of that kind, which carries the new value
C38_RememberedMatchesEmitted ==
    [][\A m \in Monitors : \A kind \in EventKinds :
         /\ TickEnd(m) =>
              Remembered(mon'[m], kind) = LastEventData(out', kind)
         /\ TaskStep(m) =>
              /\ (Remembered(mon'[m], kind) # Remembered(mon[m], kind))
                   <=> (EventsOf(out', kind) # EventsOf(out, kind))
              /\ EventsOf(out', kind) # EventsOf(out, kind) =>
                   EventsOf(out', kind) =
                      Append(EventsOf(out, kind),
                             Event(kind, Remembered(mon'[m], kind)))]_vars

\* the task left over from the first connection has ended a tick on the
\* second one remembering a fault code that no envelope of the second
\* connection carries
C38_Witness ==
    /\ conns = 2
    /\ connected
    /\ mon[1].pc \in {"await_freq", "await_volt", "sleep"}
    /\ mon[1].last_fault # None
    /\ LastEventData(out, "evt_extraction_fan_drive_fault_code") = <<>>

\* ------------------------------------------------------------------------
\* Liveness of change reporting (SpecLive)
\* ------------------------------------------------------------------------

\* ticks of the monitor, and changes of the hardware, under SpecLive
LiveTicks == 2
LiveEnv == 1

\* the command traffic of the request loop under SpecLive
LiveLines ==
    { Line(<<"ping">>),
      Line(<<"set_extraction_fan_drive_freq", "12.5">>) }

\* this step of task m is one on which a hardware read raises: a vent read
\* or last8faults or get_drive_state inside the try block, get_fan_frequency
\* or get_drive_voltage outside it
ReadFails(m) ==
    \/ /\ connected
       /\ mon[m].pc \in {"start", "sleep"}
       /\ mon'[m].pc \in {"await_freq", "crashed"}
    \/ /\ mon[m].pc = "await_faults"
       /\ mon'[m].pc # "await_state"
    \/ /\ mon[m].pc = "await_state"
       /\ mon'[m].pc = "await_freq"
       /\ mon'[m].new_fan_drive_state # get_drive_state(regs)
    \/ /\ connected
       /\ mon[m].pc \in {"await_state", "await_freq", "await_volt"}
       /\ mon'[m].pc = "crashed"

\* the hardware reads succeed once the hardware has changed
ReadsSucceed(m) == ReadFails(m) => envs = 0

\* a step of task m
MonitorLive(m) ==
    /\ \/ MonitorPoll(m, LiveTicks)
       \/ MonitorFaults(m)
       \/ MonitorState(m)
       \/ MonitorFreq(m)
       \/ MonitorVolt(m)
    /\ ReadsSucceed(m)

\* one connection with its monitor task and its request loop, over hardware
\* that changes once by itself
NextLive ==
    \/ ClientConnect(MaxConns)
    \/ ClientDisconnect
    \/ \E m \in Monitors : MonitorPoll(m, LiveTicks) /\ ReadsSucceed(m)
    \/ \E m \in Monitors : MonitorFaults(m) /\ ReadsSucceed(m)
    \/ \E m \in Monitors : MonitorState(m) /\ ReadsSucceed(m)
    \/ \E m \in Monitors : MonitorFreq(m) /\ ReadsSucceed(m)
    \/ \E m \in Monitors : MonitorVolt(m) /\ ReadsSucceed(m)
    \/ EnvSetBits(LiveEnv)
    \/ EnvDrive(LiveEnv)
    \/ ReadLine(LiveLines)
    \/ RequestHw

\* the event loop runs a monitor task that is ready: its sleep of 0.1 s
\* ends, and a call of the drive returns or raises
SpecLive ==
    /\ Init
    /\ [][NextLive]_vars
    /\ \A m \in Monitors : WF_vars(MonitorLive(m))

\* what the hardware holds for a kind of event, as the data of the event
HwData(cfg, b, r, kind) ==
    IF kind = "evt_vent_gate_state" THEN HwVector(cfg, b)
    ELSE IF kind = "evt_extraction_fan_drive_fault_code"
    THEN <<last8faults(r)[1]>>
    ELSE <<get_drive_state(r)>>

\* the data the hardware can hold for a kind
DataOf(kind) ==
    { HwData(cfg, b, [InitRegs EXCEPT !.FAULTS = f, !.IPAE = s], kind) :
        cfg \in Configs, b \in [Channels -> {0, 1}],
        f \in FaultBlocks \cup {InitRegs.FAULTS},
        s \in StatusValues \cup {InitRegs.IPAE} }

\* the hardware has changed to v, the client is connected, no envelope
\* carries v yet, and the monitor has a tick left
Unreported(kind, v) ==
    /\ connected
    /\ envs = 1
    /\ ticks < LiveTicks
    /\ HwData(config, bits, regs, kind) = v
    /\ v # HwData(config, [c \in Channels |-> 0], InitRegs, kind)
    /\ LastEventData(out, kind) # v

\* the envelope carrying v was emitted, or the client went away
Reported(kind, v) ==
    \/ ~connected
    \/ LastEventData(out, kind) = v

\* C39: when the hardware has changed to v and stays v, the client stays
\* connected and the hardware reads succeed from then on, an event envelope
\* carrying v is eventually emitted
C39_ChangeEventuallyReported ==
    \A kind \in EventKinds : \A v \in DataOf(kind) :
        Unreported(kind, v) ~> Reported(kind, v)

\* the same with a monitor task that is running when the hardware changes
ReportedWhileRunning ==
    \A kind \in EventKinds : \A v \in DataOf(kind) :
        (Unreported(kind, v) /\ mon[1].pc \notin Stopped)
            ~> Reported(kind, v)

\* the monitor task has ended on a failed read after it had emitted a gate
\* vector; after that a vent has moved, with the client connected
C39_Witness ==
    /\ connected
    /\ mon[1].pc = "crashed"
    /\ envs = 1
    /\ ticks < LiveTicks
    /\ out # <<>>
    /\ HwData(config, bits, regs, "evt_vent_gate_state") #
          LastEventData(out, "evt_vent_gate_state")
    /\ LastEventData(out, "evt_vent_gate_state") # <<>>

====
